---- MODULE Spec2Model ----
(***************************************************************************)
(* Model of the VAT validator API: input validation, the VIES SOAP client, *)
(* its error classification, the Vatlayer fallback and the route handlers. *)
(* Program strings that the code inspects character by character are       *)
(* sequences of one-character strings; fixed texts the code only passes    *)
(* along are TLA+ strings.                                                 *)
(***************************************************************************)
EXTENDS Integers, Sequences, FiniteSets, TLC

\* ------------------------------------------------------------------------
\* Characters and the JavaScript string primitives the code uses
\* ------------------------------------------------------------------------

UpperSeq == <<"A","B","C","D","E","F","G","H","I","J","K","L","M",
              "N","O","P","Q","R","S","T","U","V","W","X","Y","Z">>

LowerSeq == <<"a","b","c","d","e","f","g","h","i","j","k","l","m",
              "n","o","p","q","r","s","t","u","v","w","x","y","z">>

UpperChars == {UpperSeq[i] : i \in 1..26}

LowerChars == {LowerSeq[i] : i \in 1..26}

DigitChars == {"0","1","2","3","4","5","6","7","8","9"}

\* the characters \s matches, among those the model's inputs use
WhitespaceChars == {" ", "\t", "\n", "\r"}

toUpperChar(c) ==
  IF c \in LowerChars THEN UpperSeq[CHOOSE i \in 1..26 : LowerSeq[i] = c] ELSE c

toLowerChar(c) ==
  IF c \in UpperChars THEN LowerSeq[CHOOSE i \in 1..26 : UpperSeq[i] = c] ELSE c

toUpperCase(s) == [i \in 1..Len(s) |-> toUpperChar(s[i])]

toLowerCase(s) == [i \in 1..Len(s) |-> toLowerChar(s[i])]

\* s.slice(from) / s.slice(0, n) on 0-based offsets
sliceFrom(s, from) == IF from >= Len(s) THEN <<>> ELSE SubSeq(s, from + 1, Len(s))

sliceTo(s, n) == IF n >= Len(s) THEN s ELSE SubSeq(s, 1, n)

\* s.replace(/[chars]/g, "")
removeChars(s, chars) == SelectSeq(s, LAMBDA c : c \notin chars)

RECURSIVE trimStart(_)
trimStart(s) ==
  IF s # <<>> /\ Head(s) \in WhitespaceChars THEN trimStart(Tail(s)) ELSE s

RECURSIVE trimEnd(_)
trimEnd(s) ==
  IF s # <<>> /\ s[Len(s)] \in WhitespaceChars
  THEN trimEnd(SubSeq(s, 1, Len(s) - 1)) ELSE s

trim(s) == trimEnd(trimStart(s))

\* sub occurs in s at 1-based position p
occursAt(s, sub, p) ==
  /\ p >= 1
  /\ p + Len(sub) - 1 <= Len(s)
  /\ \A k \in 1..Len(sub) : s[p + k - 1] = sub[k]

\* s.includes(sub)
includes(s, sub) == \E p \in 1..(Len(s) - Len(sub) + 1) : occursAt(s, sub, p)

\* the element of a set of one: the({F(x) : x \in {v}}) is F(v) with v
\* evaluated once, however often F uses x, as in  const x = v; F(x)
the(S) == CHOOSE y \in S : TRUE

\* ------------------------------------------------------------------------
\* src/validation/vatValidation.ts
\* ------------------------------------------------------------------------

EU_COUNTRY_CODES ==
  { <<"A","T">>, <<"B","E">>, <<"B","G">>, <<"H","R">>, <<"C","Y">>,
    <<"C","Z">>, <<"D","E">>, <<"D","K">>, <<"E","E">>, <<"E","L">>,
    <<"E","S">>, <<"F","I">>, <<"F","R">>, <<"G","R">>, <<"H","U">>,
    <<"I","E">>, <<"I","T">>, <<"L","T">>, <<"L","U">>, <<"L","V">>,
    <<"M","T">>, <<"N","L">>, <<"P","L">>, <<"P","T">>, <<"R","O">>,
    <<"S","E">>, <<"S","I">>, <<"S","K">>, <<"X","I">> }

\* /^[A-Z]{2}$/.test(s)
COUNTRY_CODE_REGEX(s) == Len(s) = 2 /\ \A i \in 1..Len(s) : s[i] \in UpperChars

\* /^[A-Z0-9]{2,12}$/.test(s)
VAT_NUMBER_REGEX(s) ==
  /\ Len(s) >= 2
  /\ Len(s) <= 12
  /\ \A i \in 1..Len(s) : s[i] \in UpperChars \cup DigitChars

MAX_VAT_INPUT_LENGTH == 20

ValidationError(msg) ==
  [valid |-> FALSE, error |-> "Invalid Input", message |-> msg,
   countryCode |-> <<>>, vatNumber |-> <<>>]

ValidationOk(cc, vat) ==
  [valid |-> TRUE, error |-> "", message |-> "",
   countryCode |-> cc, vatNumber |-> vat]

NoError == [valid |-> TRUE, error |-> "", message |-> "",
            countryCode |-> <<>>, vatNumber |-> <<>>]

\* normalizeVatNumber without the removal of hyphens
normalizeVatNumberKeepHyphens(vat) ==
  toUpperCase(removeChars(vat, WhitespaceChars))

normalizeVatNumber(vat) ==
  toUpperCase(removeChars(removeChars(vat, WhitespaceChars), {"-"}))

\* returns NoError for the code's null
\* validateCountryCode without the test of the allow-list
validateCountryCodeAnyPair(countryCode) ==
  LET code == toUpperCase(countryCode) IN
  IF ~COUNTRY_CODE_REGEX(code)
  THEN ValidationError("countryCode must be a two-letter ISO country code (e.g. IE, DE).")
  ELSE NoError

validateCountryCode(countryCode) ==
  LET code == toUpperCase(countryCode) IN
  IF ~COUNTRY_CODE_REGEX(code)
  THEN ValidationError("countryCode must be a two-letter ISO country code (e.g. IE, DE).")
  ELSE IF code \notin EU_COUNTRY_CODES
  THEN ValidationError("Unsupported or invalid country code: ${code}. Must be an EU/EEA code supported by VIES (e.g. IE, DE, FR).")
  ELSE NoError

\* validateVatNumber without the test of VAT_NUMBER_REGEX
validateVatNumberNoRegex(vatNumber) ==
  IF vatNumber = <<>>
  THEN ValidationError("vatNumber is required and cannot be empty.")
  ELSE NoError

\* returns NoError for the code's null
validateVatNumber(vatNumber) ==
  IF vatNumber = <<>>
  THEN ValidationError("vatNumber is required and cannot be empty.")
  ELSE IF ~VAT_NUMBER_REGEX(vatNumber)
  THEN ValidationError("vatNumber must contain only letters and digits (2-12 characters after removing spaces/dashes).")
  ELSE NoError

\* raw is [isString, text]: a repeated or nested query parameter is not a string
\* validateFullVatInput without the upper-casing of the country-code slice
validateFullVatInputNoUpper(raw) ==
  LET trimmed == trim(raw.text) IN
  IF ~raw.isString
  THEN ValidationError("vat_number must be a string (e.g. ?vat_number=IE6388047V).")
  ELSE IF trimmed = <<>>
  THEN ValidationError("Query parameter vat_number is required (e.g. ?vat_number=IE6388047V).")
  ELSE IF Len(trimmed) > MAX_VAT_INPUT_LENGTH
  THEN ValidationError("vat_number is too long (max ${MAX_VAT_INPUT_LENGTH} characters).")
  ELSE IF Len(trimmed) < 4
  THEN ValidationError("vat_number must start with a two-letter country code followed by the VAT number (e.g. IE6388047V).")
  ELSE
    LET countryCode == sliceTo(trimmed, 2)
        vatNumber   == normalizeVatNumber(sliceFrom(trimmed, 2))
        countryError == validateCountryCode(countryCode)
        vatError     == validateVatNumber(vatNumber)
    IN IF ~countryError.valid
       THEN ValidationError("vat_number must start with a valid EU country code (e.g. IE6388047V).")
       ELSE IF ~vatError.valid THEN vatError
       ELSE ValidationOk(countryCode, vatNumber)

validateFullVatInput(raw) ==
  LET trimmed == trim(raw.text) IN
  IF ~raw.isString
  THEN ValidationError("vat_number must be a string (e.g. ?vat_number=IE6388047V).")
  ELSE IF trimmed = <<>>
  THEN ValidationError("Query parameter vat_number is required (e.g. ?vat_number=IE6388047V).")
  ELSE IF Len(trimmed) > MAX_VAT_INPUT_LENGTH
  THEN ValidationError("vat_number is too long (max ${MAX_VAT_INPUT_LENGTH} characters).")
  ELSE IF Len(trimmed) < 4
  THEN ValidationError("vat_number must start with a two-letter country code followed by the VAT number (e.g. IE6388047V).")
  ELSE
    LET countryCode == toUpperCase(sliceTo(trimmed, 2))
        vatNumber   == normalizeVatNumber(sliceFrom(trimmed, 2))
        countryError == validateCountryCode(countryCode)
        vatError     == validateVatNumber(vatNumber)
    IN IF ~countryError.valid
       THEN ValidationError("vat_number must start with a valid EU country code (e.g. IE6388047V).")
       ELSE IF ~vatError.valid THEN vatError
       ELSE ValidationOk(countryCode, vatNumber)

validatePathParams(countryCode, vatNumberRaw) ==
  LET code      == toUpperCase(countryCode)
      vatNumber == normalizeVatNumber(vatNumberRaw)
      countryError == validateCountryCode(code)
      vatError     == validateVatNumber(vatNumber)
  IN IF ~countryError.valid THEN countryError
     ELSE IF ~vatError.valid THEN vatError
     ELSE ValidationOk(code, vatNumber)

\* ------------------------------------------------------------------------
\* src/services/viesService.ts
\* ------------------------------------------------------------------------

TagValid             == <<"v","a","l","i","d">>
TagCountryCode       == <<"c","o","u","n","t","r","y","C","o","d","e">>
TagVatNumber         == <<"v","a","t","N","u","m","b","e","r">>
TagName              == <<"n","a","m","e">>
TagAddress           == <<"a","d","d","r","e","s","s">>
TagRequestDate       == <<"r","e","q","u","e","s","t","D","a","t","e">>
TagRequestIdentifier == <<"r","e","q","u","e","s","t","I","d","e","n","t","i","f","i","e","r">>
TagFaultstring       == <<"f","a","u","l","t","s","t","r","i","n","g">>

\* escapeXml: the five replacements, applied in the code's order; the later
\* ones never touch what the earlier ones produced (no < > " ' in an entity)
\* escapeXml that also writes a space as an entity
escapeCharSpaces(c) ==
  CASE c = "&"  -> <<"&","a","m","p",";">>
    [] c = "<"  -> <<"&","l","t",";">>
    [] c = ">"  -> <<"&","g","t",";">>
    [] c = "\"" -> <<"&","q","u","o","t",";">>
    [] c = "'"  -> <<"&","a","p","o","s",";">>
    [] c = " "  -> <<"&","#","3","2",";">>
    [] OTHER    -> <<c>>

escapeChar(c) ==
  CASE c = "&"  -> <<"&","a","m","p",";">>
    [] c = "<"  -> <<"&","l","t",";">>
    [] c = ">"  -> <<"&","g","t",";">>
    [] c = "\"" -> <<"&","q","u","o","t",";">>
    [] c = "'"  -> <<"&","a","p","o","s",";">>
    [] OTHER    -> <<c>>

RECURSIVE escapeXml(_)
escapeXml(s) == IF s = <<>> THEN <<>> ELSE escapeChar(Head(s)) \o escapeXml(Tail(s))

SOAP_NS ==
  <<"u","r","n",":","e","c",".","e","u","r","o","p","a",".","e","u",":","t",
    "a","x","u","d",":","v","i","e","s",":","s","e","r","v","i","c","e","s",
    ":","c","h","e","c","k","V","a","t",":","t","y","p","e","s">>

\* the envelope up to the namespace, from there to the country code, between
\* the two arguments, and after the VAT number
EnvelopeStart ==
  <<"<","?","x","m","l"," ","v","e","r","s","i","o","n","=","\"","1",".",
    "0","\""," ","e","n","c","o","d","i","n","g","=","\"","U","T","F","-",
    "8","\"","?",">","\n","<","s","o","a","p",":","E","n","v","e","l","o",
    "p","e"," ","x","m","l","n","s",":","s","o","a","p","=","\"","h","t",
    "t","p",":","/","/","s","c","h","e","m","a","s",".","x","m","l","s","o",
    "a","p",".","o","r","g","/","s","o","a","p","/","e","n","v","e","l","o",
    "p","e","/","\""," ","x","m","l","n","s",":","u","r","n","=","\"">>

EnvelopeBody ==
  <<"\"",">","\n"," "," ","<","s","o","a","p",":","B","o","d","y",">","\n",
    " "," "," "," ","<","u","r","n",":","c","h","e","c","k","V","a","t",">",
    "\n"," "," "," "," "," "," ","<","u","r","n",":","c","o","u","n","t",
    "r","y","C","o","d","e",">">>

EnvelopeBetween ==
  <<"<","/","u","r","n",":","c","o","u","n","t","r","y","C","o","d","e",">",
    "\n"," "," "," "," "," "," ","<","u","r","n",":","v","a","t","N","u",
    "m","b","e","r",">">>

EnvelopeEnd ==
  <<"<","/","u","r","n",":","v","a","t","N","u","m","b","e","r",">","\n",
    " "," "," "," ","<","/","u","r","n",":","c","h","e","c","k","V","a","t",
    ">","\n"," "," ","<","/","s","o","a","p",":","B","o","d","y",">","\n",
    "<","/","s","o","a","p",":","E","n","v","e","l","o","p","e",">">>

buildSoapEnvelope(countryCode, vatNumber) ==
  EnvelopeStart \o SOAP_NS \o EnvelopeBody
  \o escapeXml(countryCode)
  \o EnvelopeBetween
  \o escapeXml(vatNumber)
  \o EnvelopeEnd

\* TAG at position p, in any case (the i flag)
tagAt(xml, tagName, p) ==
  /\ p >= 1
  /\ p + Len(tagName) - 1 <= Len(xml)
  /\ \A k \in 1..Len(tagName) :
       toLowerChar(xml[p + k - 1]) = toLowerChar(tagName[k])

\* [^:>]*:?  matched against xml[a..b]
prefixMatches(xml, a, b) ==
  /\ \A k \in a..(b - 1) : xml[k] \notin {":", ">"}
  /\ b >= a => xml[b] # ">"

\* e is the position of the first ">" after s
firstGtIs(xml, s, e) ==
  /\ xml[e] = ">"
  /\ \A k \in (s + 1)..(e - 1) : xml[k] # ">"

\* position of the first ">" after s; there is one
firstGt(xml, s) == CHOOSE e \in (s + 1)..Len(xml) : firstGtIs(xml, s, e)

\* <[^:>]*:?TAG[^>]*>  (withPrefix)  or  <TAG[^>]*>  at position s
openTagAt(xml, tagName, s, withPrefix) ==
  /\ xml[s] = "<"
  /\ \E e \in (s + 1)..Len(xml) :
       /\ firstGtIs(xml, s, e)
       /\ \E p \in (s + 1)..(e - Len(tagName)) :
            /\ tagAt(xml, tagName, p)
            /\ IF withPrefix THEN prefixMatches(xml, s + 1, p - 1) ELSE p = s + 1

\* </[^:>]*:?TAG\s*>  (withPrefix)  or  </TAG\s*>  at position c
closeTagAt(xml, tagName, c, withPrefix) ==
  /\ c + 1 <= Len(xml)
  /\ xml[c] = "<"
  /\ xml[c + 1] = "/"
  /\ \E p \in (c + 2)..(Len(xml) - Len(tagName)) :
       /\ tagAt(xml, tagName, p)
       /\ IF withPrefix THEN prefixMatches(xml, c + 2, p - 1) ELSE p = c + 2
       /\ \E g \in (p + Len(tagName))..Len(xml) :
            /\ xml[g] = ">"
            /\ \A k \in (p + Len(tagName))..(g - 1) : xml[k] \in WhitespaceChars

\* the pattern matches from position s: the opening tag is there and the
\* closing tag follows it somewhere
matchesAt(xml, tagName, s, withPrefix) ==
  /\ openTagAt(xml, tagName, s, withPrefix)
  /\ \E e \in (s + 1)..Len(xml) :
       /\ firstGtIs(xml, s, e)
       /\ \E c \in (e + 1)..Len(xml) : closeTagAt(xml, tagName, c, withPrefix)

\* where the lazy group ([\s\S]*?) that starts after e ends: the first
\* position at which the closing tag matches
firstClose(xml, tagName, e, withPrefix) ==
  CHOOSE c \in (e + 1)..Len(xml) :
    /\ closeTagAt(xml, tagName, c, withPrefix)
    /\ \A d \in (e + 1)..(c - 1) : ~closeTagAt(xml, tagName, d, withPrefix)

NotFound == [found |-> FALSE, text |-> <<>>]

\* xml.match(re): leftmost start, shortest group; m[1].trim()
matchPattern(xml, tagName, withPrefix) ==
  the({ IF S = {} THEN NotFound
        ELSE the({ the({ [found |-> TRUE, text |-> trim(SubSeq(xml, e + 1, c - 1))]
                       : c \in {firstClose(xml, tagName, e, withPrefix)} })
                 : e \in {firstGt(xml, CHOOSE x \in S : \A y \in S : x <= y)} })
      : S \in {{s \in 1..Len(xml) : matchesAt(xml, tagName, s, withPrefix)}} })

extractTag(xml, tagName) ==
  the({ IF m1.found THEN m1 ELSE matchPattern(xml, tagName, FALSE)
      : m1 \in {matchPattern(xml, tagName, TRUE)} })

\* a string value that is a fixed text of the program (lit), a text that
\* came from outside (dyn), or undefined / null
Lit(s) == [undef |-> FALSE, lit |-> s, dyn |-> <<>>]

Dyn(q) == [undef |-> FALSE, lit |-> "", dyn |-> q]

Undef == [undef |-> TRUE, lit |-> "", dyn |-> <<>>]

\* extracted ?? ""
orEmpty(extracted) == the({ IF m.found THEN m.text ELSE <<>> : m \in {extracted} })

EmptyResponse ==
  [valid |-> FALSE, countryCode |-> <<>>, vatNumber |-> <<>>, name |-> <<>>,
   address |-> <<>>, requestDate |-> <<>>, consultationNumber |-> Undef]

\* [threw, value]: threw is the Error the code throws when valid is missing
parseViesResponse(xml) ==
  the({
      IF ~validStr.found
      THEN [threw |-> TRUE,
            message |-> "VIES response missing required 'valid' element",
            value |-> EmptyResponse]
      ELSE [threw |-> FALSE, message |-> "",
            value |->
              [valid |-> trim(toLowerCase(validStr.text)) = <<"t","r","u","e">>,
               countryCode |-> orEmpty(extractTag(xml, TagCountryCode)),
               vatNumber |-> orEmpty(extractTag(xml, TagVatNumber)),
               name |-> orEmpty(extractTag(xml, TagName)),
               address |-> orEmpty(extractTag(xml, TagAddress)),
               requestDate |-> orEmpty(extractTag(xml, TagRequestDate)),
               consultationNumber |->
                 the({ IF requestIdentifier.found THEN Dyn(requestIdentifier.text)
                       ELSE Undef
                     : requestIdentifier \in {extractTag(xml, TagRequestIdentifier)} })]]
    : validStr \in {extractTag(xml, TagValid)} })

\* found = FALSE is the code's null: no element, or an element with empty text
getSoapFaultString(xml) ==
  the({ IF faultString.found /\ faultString.text # <<>>
        THEN [found |-> TRUE, text |-> trim(faultString.text)]
        ELSE NotFound
      : faultString \in {extractTag(xml, TagFaultstring)} })

ViesErrorCode ==
  {"SERVICE_UNAVAILABLE", "MS_UNAVAILABLE", "INVALID_INPUT", "TIMEOUT",
   "SERVER_BUSY", "SERVER_DOWN", "NETWORK_ERROR", "PARSE_ERROR", "UNKNOWN_ERROR"}

VIES_ERROR_MESSAGES ==
  [c \in ViesErrorCode |->
    CASE c = "INVALID_INPUT" ->
           "The VAT number or country code was rejected by the EU VIES system. Please check the format and try again."
      [] c = "MS_UNAVAILABLE" ->
           "The member state's validation service is temporarily unavailable. Please try again later."
      [] c = "SERVICE_UNAVAILABLE" ->
           "The EU VIES service is temporarily unavailable. Please try again later."
      [] c = "SERVER_DOWN" ->
           "The EU VIES service is currently down. Please try again later."
      [] c = "TIMEOUT" ->
           "The request to the EU VIES service timed out. Please try again."
      [] c = "SERVER_BUSY" ->
           "The EU VIES service is currently busy. Please try again in a few minutes."
      [] c = "NETWORK_ERROR" ->
           "Unable to reach the EU VIES service. Check your network connection or try again later."
      [] c = "PARSE_ERROR" ->
           "The EU VIES service returned an unexpected response. Please try again later."
      [] c = "UNKNOWN_ERROR" ->
           "An unexpected error occurred while validating the VAT number. Please try again."]

\* a thrown value: a ViesServiceError (isVies) or a plain Error
ViesServiceError(message, code, statusCode, details) ==
  [isVies |-> TRUE, code |-> code, statusCode |-> statusCode,
   message |-> Lit(message), details |-> details]

PlainError(message) ==
  [isVies |-> FALSE, code |-> "", statusCode |-> 0,
   message |-> message, details |-> Undef]

NoThrow == [isVies |-> FALSE, code |-> "", statusCode |-> 0,
            message |-> Undef, details |-> Undef]

\* toFriendlyError giving the raw text, when there is one, as the message
toFriendlyErrorRawMessage(code, statusCode, rawFault) ==
  [isVies |-> TRUE, code |-> code, statusCode |-> statusCode,
   message |-> IF rawFault.undef THEN Lit(VIES_ERROR_MESSAGES[code]) ELSE rawFault,
   details |-> rawFault]

toFriendlyError(code, statusCode, rawFault) ==
  ViesServiceError(VIES_ERROR_MESSAGES[code], code, statusCode, rawFault)

\* normalizeFault with the busy / overloaded test moved ahead of the invalid test
normalizeFaultBusyFirst(faultString) ==
  the({
      IF includes(lower, <<"s","e","r","v","i","c","e"," ","u","n","a","v","a","i","l","a","b","l","e">>)
         \/ includes(lower, <<"s","e","r","v","e","r"," ","d","o","w","n">>)
      THEN [code |-> "SERVICE_UNAVAILABLE", statusCode |-> 503]
      ELSE IF includes(lower, <<"m","s"," ","u","n","a","v","a","i","l","a","b","l","e">>)
         \/ includes(lower, <<"m","e","m","b","e","r"," ","s","t","a","t","e">>)
      THEN [code |-> "MS_UNAVAILABLE", statusCode |-> 503]
      ELSE IF includes(lower, <<"b","u","s","y">>)
         \/ includes(lower, <<"o","v","e","r","l","o","a","d","e","d">>)
      THEN [code |-> "SERVER_BUSY", statusCode |-> 503]
      ELSE IF includes(lower, <<"i","n","v","a","l","i","d">>)
      THEN [code |-> "INVALID_INPUT", statusCode |-> 400]
      ELSE IF includes(lower, <<"t","i","m","e","o","u","t">>)
         \/ includes(lower, <<"t","i","m","e","d"," ","o","u","t">>)
      THEN [code |-> "TIMEOUT", statusCode |-> 504]
      ELSE [code |-> "UNKNOWN_ERROR", statusCode |-> 502]
    : lower \in {toLowerCase(faultString)} })

normalizeFault(faultString) ==
  the({
      IF includes(lower, <<"s","e","r","v","i","c","e"," ","u","n","a","v","a","i","l","a","b","l","e">>)
         \/ includes(lower, <<"s","e","r","v","e","r"," ","d","o","w","n">>)
      THEN [code |-> "SERVICE_UNAVAILABLE", statusCode |-> 503]
      ELSE IF includes(lower, <<"m","s"," ","u","n","a","v","a","i","l","a","b","l","e">>)
         \/ includes(lower, <<"m","e","m","b","e","r"," ","s","t","a","t","e">>)
      THEN [code |-> "MS_UNAVAILABLE", statusCode |-> 503]
      ELSE IF includes(lower, <<"i","n","v","a","l","i","d">>)
         \/ includes(lower, <<"i","n","v","a","l","i","d"," ","i","n","p","u","t">>)
      THEN [code |-> "INVALID_INPUT", statusCode |-> 400]
      ELSE IF includes(lower, <<"t","i","m","e","o","u","t">>)
         \/ includes(lower, <<"t","i","m","e","d"," ","o","u","t">>)
      THEN [code |-> "TIMEOUT", statusCode |-> 504]
      ELSE IF includes(lower, <<"b","u","s","y">>)
         \/ includes(lower, <<"o","v","e","r","l","o","a","d","e","d">>)
      THEN [code |-> "SERVER_BUSY", statusCode |-> 503]
      ELSE [code |-> "UNKNOWN_ERROR", statusCode |-> 502]
    : lower \in {toLowerCase(faultString)} })

\* code is "" for undefined
isNetworkErrorCode(code) ==
  IF code = "" THEN FALSE
  ELSE code \in {"ECONNREFUSED", "ECONNRESET", "ENOTFOUND", "ENETUNREACH",
                 "ETIMEDOUT", "EAI_AGAIN", "ERR_NETWORK",
                 "ERR_CONNECTION_REFUSED", "ERR_CONNECTION_RESET"}

IpBlockedDetail ==
  "The EU VIES service blocked the request (often when called from cloud/datacenter IPs). Try again later or run the API from a different network."

Returned(v) == [ok |-> TRUE, value |-> v, error |-> NoThrow]

Thrown(e) == [ok |-> FALSE, value |-> EmptyResponse, error |-> e]

\* toFriendlyError(code, statusCode, fault) with { code, statusCode } =
\* normalizeFault(fault)
faultError(fault) ==
  the({ toFriendlyError(nf.code, nf.statusCode, Dyn(fault))
      : nf \in {normalizeFault(fault)} })

\* the catch block of checkVat with the two status tests moved ahead of the
\* timeout test
checkVatCatchStatusFirst(err) ==
  IF err.isAxios
  THEN
    the({
        IF fault.found
        THEN faultError(fault.text)
        ELSE IF err.hasResponse /\ err.status = 503
        THEN toFriendlyError("SERVICE_UNAVAILABLE", 503, Undef)
        ELSE IF err.hasResponse /\ err.status = 403
        THEN toFriendlyError("SERVICE_UNAVAILABLE", 502, Lit(IpBlockedDetail))
        ELSE IF err.code = "ECONNABORTED"
                \/ \E lower \in {toLowerCase(err.message)} :
                     includes(lower, <<"t","i","m","e","o","u","t">>)
        THEN toFriendlyError("TIMEOUT", 504, Undef)
        ELSE IF isNetworkErrorCode(err.code)
        THEN toFriendlyError("NETWORK_ERROR", 502, Dyn(err.message))
        ELSE toFriendlyError("UNKNOWN_ERROR",
               IF err.hasResponse /\ err.status # 0 /\ err.status >= 400
               THEN err.status ELSE 502,
               Dyn(err.message))
      : fault \in {IF err.hasResponse /\ err.data.isString /\ err.data.text # <<>>
                   THEN getSoapFaultString(err.data.text) ELSE NotFound} })
  ELSE toFriendlyError("UNKNOWN_ERROR", 502,
                       IF err.isError THEN Dyn(err.message) ELSE Undef)

\* the catch block of checkVat (lines 204-238): err is what axios.post threw,
\* [isAxios, isError, code, message, hasResponse, status, data: [isString, text]]
checkVatCatch(err) ==
  IF err.isAxios
  THEN
    the({
        IF fault.found
        THEN faultError(fault.text)
        ELSE IF err.code = "ECONNABORTED"
                \/ \E lower \in {toLowerCase(err.message)} :
                     includes(lower, <<"t","i","m","e","o","u","t">>)
        THEN toFriendlyError("TIMEOUT", 504, Undef)
        ELSE IF err.hasResponse /\ err.status = 503
        THEN toFriendlyError("SERVICE_UNAVAILABLE", 503, Undef)
        ELSE IF err.hasResponse /\ err.status = 403
        THEN toFriendlyError("SERVICE_UNAVAILABLE", 502, Lit(IpBlockedDetail))
        ELSE IF isNetworkErrorCode(err.code)
        THEN toFriendlyError("NETWORK_ERROR", 502, Dyn(err.message))
        ELSE toFriendlyError("UNKNOWN_ERROR",
               IF err.hasResponse /\ err.status # 0 /\ err.status >= 400
               THEN err.status ELSE 502,
               Dyn(err.message))
      : fault \in {IF err.hasResponse /\ err.data.isString /\ err.data.text # <<>>
                   THEN getSoapFaultString(err.data.text) ELSE NotFound} })
  ELSE toFriendlyError("UNKNOWN_ERROR", 502,
                       IF err.isError THEN Dyn(err.message) ELSE Undef)

\* checkVat answering an empty body with a "not found" result
checkVatEmptyIsNotFound(reply) ==
  IF ~reply.ok
  THEN Thrown(checkVatCatch(reply.err))
  ELSE IF ~reply.data.isString \/ trim(reply.data.text) = <<>>
  THEN Returned(EmptyResponse)
  ELSE
    the({
        IF fault.found
        THEN Thrown(faultError(fault.text))
        ELSE the({ IF parsed.threw
                   THEN Thrown(toFriendlyError("PARSE_ERROR", 502, Lit(parsed.message)))
                   ELSE Returned(parsed.value)
                 : parsed \in {parseViesResponse(reply.data.text)} })
      : fault \in {getSoapFaultString(reply.data.text)} })

\* checkVat after the await (lines 203-255): reply is what axios.post gave,
\* [ok, data] on a 2xx response and [ok = FALSE, err] otherwise
checkVat(reply) ==
  IF ~reply.ok
  THEN Thrown(checkVatCatch(reply.err))
  ELSE IF ~reply.data.isString \/ trim(reply.data.text) = <<>>
  THEN Thrown(toFriendlyError("PARSE_ERROR", 502, Lit("Empty response from VIES")))
  ELSE
    the({
        IF fault.found
        THEN Thrown(faultError(fault.text))
        ELSE the({ IF parsed.threw
                   THEN Thrown(toFriendlyError("PARSE_ERROR", 502, Lit(parsed.message)))
                   ELSE Returned(parsed.value)
                 : parsed \in {parseViesResponse(reply.data.text)} })
      : fault \in {getSoapFaultString(reply.data.text)} })

\* ------------------------------------------------------------------------
\* src/services/vatlayerService.ts
\* ------------------------------------------------------------------------

\* the request checkVatViaVatlayer sends (lines 33-43)
vatlayerRequest(apiKey, countryCode, vatNumber) ==
  [access_key |-> apiKey,
   vat_number |-> removeChars(countryCode \o vatNumber, WhitespaceChars),
   countryCode |-> countryCode, vatNumber |-> vatNumber]

\* field ?? fallback
orElse(field, fallback) == IF field.undef THEN fallback ELSE field.dyn

\* 0-based day d of the model's calendar as YYYY-MM-DD
isoDay(d) ==
  <<"2","0","2","6","-","0","1","-","0">>
  \o << <<"1","2","3","4","5","6","7","8","9">>[d + 1] >>

\* new Date().toISOString() with the clock counting half days
toISOString(t) ==
  isoDay(t \div 2) \o
  (IF t % 2 = 0 THEN <<"T","0","0",":","0","0",":","0","0",".","0","0","0","Z">>
                ELSE <<"T","1","2",":","0","0",":","0","0",".","0","0","0","Z">>)

\* checkVatViaVatlayer leaving requestDate empty, as parseViesResponse does
\* when the registry sends none
checkVatViaVatlayerNoDate(reply, countryCode, vatNumber, t) ==
  IF ~reply.ok
  THEN
    IF reply.err.isAxios
    THEN LET info == IF reply.err.info.undef THEN reply.err.message
                     ELSE reply.err.info.dyn
         IN Thrown(PlainError([undef |-> FALSE, lit |-> "Vatlayer request failed: ",
                               dyn |-> info]))
    ELSE Thrown(PlainError(IF reply.err.isError THEN Dyn(reply.err.message)
                           ELSE Lit("Vatlayer request failed")))
  ELSE
    LET data == reply.data IN
    IF ~data.isObject \/ ~data.validIsBoolean
    THEN Thrown(PlainError(Lit("Vatlayer returned an invalid response")))
    ELSE
      Returned([valid |-> data.valid,
                countryCode |-> orElse(data.country_code, countryCode),
                vatNumber |-> orElse(data.vat_number, vatNumber),
                name |-> orElse(data.company_name, <<>>),
                address |-> orElse(data.company_address, <<>>),
                requestDate |-> <<>>,
                consultationNumber |-> Undef])

\* checkVatViaVatlayer making up a consultation number from the clock
checkVatViaVatlayerClockNumber(reply, countryCode, vatNumber, t) ==
  IF ~reply.ok
  THEN
    IF reply.err.isAxios
    THEN LET info == IF reply.err.info.undef THEN reply.err.message
                     ELSE reply.err.info.dyn
         IN Thrown(PlainError([undef |-> FALSE, lit |-> "Vatlayer request failed: ",
                               dyn |-> info]))
    ELSE Thrown(PlainError(IF reply.err.isError THEN Dyn(reply.err.message)
                           ELSE Lit("Vatlayer request failed")))
  ELSE
    LET data == reply.data IN
    IF ~data.isObject \/ ~data.validIsBoolean
    THEN Thrown(PlainError(Lit("Vatlayer returned an invalid response")))
    ELSE
      LET requestDate == sliceTo(toISOString(t), 10) IN
      Returned([valid |-> data.valid,
                countryCode |-> orElse(data.country_code, countryCode),
                vatNumber |-> orElse(data.vat_number, vatNumber),
                name |-> orElse(data.company_name, <<>>),
                address |-> orElse(data.company_address, <<>>),
                requestDate |-> requestDate,
                consultationNumber |-> Dyn(toISOString(t))])

\* checkVatViaVatlayer after the await (lines 44-68): reply is [ok, data] on
\* a 2xx response, data being [isObject, validIsBoolean, valid, country_code,
\* vat_number, company_name, company_address], and [ok = FALSE, err] otherwise,
\* err being [isAxios, isError, message, info]
checkVatViaVatlayer(reply, countryCode, vatNumber, t) ==
  IF ~reply.ok
  THEN
    IF reply.err.isAxios
    THEN LET info == IF reply.err.info.undef THEN reply.err.message
                     ELSE reply.err.info.dyn
         IN Thrown(PlainError([undef |-> FALSE, lit |-> "Vatlayer request failed: ",
                               dyn |-> info]))
    ELSE Thrown(PlainError(IF reply.err.isError THEN Dyn(reply.err.message)
                           ELSE Lit("Vatlayer request failed")))
  ELSE
    LET data == reply.data IN
    IF ~data.isObject \/ ~data.validIsBoolean
    THEN Thrown(PlainError(Lit("Vatlayer returned an invalid response")))
    ELSE
      LET requestDate == sliceTo(toISOString(t), 10) IN
      Returned([valid |-> data.valid,
                countryCode |-> orElse(data.country_code, countryCode),
                vatNumber |-> orElse(data.vat_number, vatNumber),
                name |-> orElse(data.company_name, <<>>),
                address |-> orElse(data.company_address, <<>>),
                requestDate |-> requestDate,
                consultationNumber |-> Undef])

\* ------------------------------------------------------------------------
\* src/app.ts
\* ------------------------------------------------------------------------

\* x || null for a string
orNull(q) == IF q = <<>> THEN Undef ELSE Dyn(q)

NoBody ==
  [valid |-> FALSE, country_code |-> <<>>, vat_number |-> <<>>,
   company_name |-> Undef, address |-> Undef, consultation_number |-> Undef,
   request_date |-> Undef, checked_at |-> <<>>]

toApiResponse(vies, t) ==
  [valid |-> vies.valid,
   country_code |-> vies.countryCode,
   vat_number |-> vies.vatNumber,
   company_name |-> orNull(vies.name),
   address |-> orNull(vies.address),
   consultation_number |-> vies.consultationNumber,
   request_date |-> orNull(vies.requestDate),
   checked_at |-> toISOString(t)]

\* res.json(body)
sendJson(body) ==
  [status |-> 200, isError |-> FALSE, json |-> body,
   error |-> "", message |-> Undef, status_code |-> 0, details |-> Undef]

\* a string value is truthy: neither undefined / null nor ""
truthy(key) == ~key.undef /\ (key.lit # "" \/ key.dyn # <<>>)

\* sendError(res, status, code, message, details): details is left out of
\* the body when it is falsy
sendError(status, code, message, details) ==
  [status |-> status, isError |-> TRUE, json |-> NoBody,
   error |-> code, message |-> message, status_code |-> status,
   details |-> IF truthy(details) THEN details ELSE Undef]

\* config.apiKey: process.env.API_KEY?.trim() || null
configApiKey(env) ==
  IF ~env.undef /\ trim(env.dyn) # <<>> THEN Dyn(trim(env.dyn)) ELSE Undef

\* what a middleware did: it called next(), or it sent a response
NoResponse == [sendJson(NoBody) EXCEPT !.status = 0]

Passed == [next |-> TRUE, response |-> NoResponse]

Sent(response) == [next |-> FALSE, response |-> response]

BearerPrefix == <<"B","e","a","r","e","r"," ">>

HealthPath == <<"/","h","e","a","l","t","h">>

RootPath == <<"/">>

\* bearer?.startsWith("Bearer ") ? bearer.slice(7).trim() : null
bearerToken(bearer) ==
  IF ~bearer.undef /\ occursAt(bearer.dyn, BearerPrefix, 1)
  THEN Dyn(trim(sliceFrom(bearer.dyn, 7)))
  ELSE Undef

\* headerKey?.trim() || token
providedKey(headers) ==
  IF ~headers.xApiKey.undef /\ trim(headers.xApiKey.dyn) # <<>>
  THEN Dyn(trim(headers.xApiKey.dyn))
  ELSE bearerToken(headers.authorization)

\* optionalApiKeyMiddleware with the requests without a key passed on
optionalApiKeyMiddlewareLenient(key, path, headers) ==
  IF ~truthy(key) THEN Passed
  ELSE IF path = HealthPath \/ path = RootPath THEN Passed
  ELSE IF providedKey(headers) = key THEN Passed
  ELSE IF ~truthy(providedKey(headers)) THEN Passed
  ELSE Sent(sendError(403, "FORBIDDEN", Lit("Invalid API key."), Undef))

optionalApiKeyMiddleware(key, path, headers) ==
  IF ~truthy(key) THEN Passed
  ELSE IF path = HealthPath \/ path = RootPath THEN Passed
  ELSE IF providedKey(headers) = key THEN Passed
  ELSE IF ~truthy(providedKey(headers))
  THEN Sent(sendError(401, "UNAUTHORIZED",
         Lit("API key required. Provide X-API-Key header or Authorization: Bearer <key>."),
         Undef))
  ELSE Sent(sendError(403, "FORBIDDEN", Lit("Invalid API key."), Undef))

\* useVatlayer without the test of err.statusCode
useVatlayerAnyStatus(key, err) ==
  /\ truthy(key)
  /\ err.isVies
  /\ err.code = "SERVICE_UNAVAILABLE"

\* useVatlayer without the test of config.vatlayerApiKey
useVatlayerAnyKey(key, err) ==
  /\ err.isVies
  /\ err.code = "SERVICE_UNAVAILABLE"
  /\ err.statusCode = 502

\* the decision validateVat takes in its catch block (lines 44-48)
useVatlayer(key, err) ==
  /\ truthy(key)
  /\ err.isVies
  /\ err.code = "SERVICE_UNAVAILABLE"
  /\ err.statusCode = 502

\* handlerCatch answering every error as an unexpected one
handlerCatchAllInternal(err) ==
  sendError(500, "INTERNAL_ERROR",
            Lit("An unexpected error occurred. Please try again."),
            err.message)

\* the catch block of the two route handlers (lines 90-108, 129-146)
handlerCatch(err) ==
  IF err.isVies
  THEN sendError(err.statusCode, err.code, err.message, err.details)
  ELSE sendError(500, "INTERNAL_ERROR",
                 Lit("An unexpected error occurred. Please try again."),
                 err.message)

\* ------------------------------------------------------------------------
\* The environment: requests, the registry's replies, the fallback's replies
\* ------------------------------------------------------------------------

\* the requests in flight together
Reqs == {"r1", "r2"}

\* the clock runs over 0..MaxNow half days
MaxNow == 2

Ns2 == <<"n","s","2",":">>

\* <ns tag>text</ns tag>
Elem(ns, tag, text) ==
  <<"<">> \o ns \o tag \o <<">">> \o text \o <<"<","/">> \o ns \o tag \o <<">">>

Text(q) == [isString |-> TRUE, text |-> q]

NotText == [isString |-> FALSE, text |-> <<>>]

NoErr == [isAxios |-> FALSE, isError |-> FALSE, code |-> "", message |-> <<>>,
          hasResponse |-> FALSE, status |-> 0, data |-> NotText]

\* axios.post resolved with a 2xx response
ViesOk(data) == [ok |-> TRUE, data |-> data, err |-> NoErr]

\* axios rejected on a response whose status is outside 2xx
StatusDigits(status) ==
  CASE status = 304 -> <<"3","0","4">>
    [] status = 400 -> <<"4","0","0">>
    [] status = 403 -> <<"4","0","3">>
    [] status = 404 -> <<"4","0","4">>
    [] status = 500 -> <<"5","0","0">>
    [] status = 503 -> <<"5","0","3">>

HttpError(status, data) ==
  [ok |-> FALSE, data |-> NotText,
   err |-> [isAxios |-> TRUE, isError |-> TRUE,
            code |-> IF status >= 400 /\ status < 500 THEN "ERR_BAD_REQUEST"
                     ELSE "ERR_BAD_RESPONSE",
            message |-> <<"R","e","q","u","e","s","t"," ","f","a","i","l","e","d"," ",
                          "w","i","t","h"," ","s","t","a","t","u","s"," ",
                          "c","o","d","e"," ">> \o StatusDigits(status),
            hasResponse |-> TRUE, status |-> status, data |-> data]]

\* axios rejected without a response
NoResponseError(code, message) ==
  [ok |-> FALSE, data |-> NotText,
   err |-> [isAxios |-> TRUE, isError |-> TRUE, code |-> code,
            message |-> message, hasResponse |-> FALSE, status |-> 0,
            data |-> NotText]]

\* something that is not an AxiosError was thrown
OtherThrow(isError, message) ==
  [ok |-> FALSE, data |-> NotText,
   err |-> [isAxios |-> FALSE, isError |-> isError, code |-> "",
            message |-> message, hasResponse |-> FALSE, status |-> 0,
            data |-> NotText]]

TimeoutMessage15 ==
  <<"t","i","m","e","o","u","t"," ","o","f"," ","1","5","0","0","0","m","s"," ",
    "e","x","c","e","e","d","e","d">>

TimeoutMessage10 ==
  <<"t","i","m","e","o","u","t"," ","o","f"," ","1","0","0","0","0","m","s"," ",
    "e","x","c","e","e","d","e","d">>

\* the 15 s timeout of the registry call expired
ViesTimedOut == NoResponseError("ECONNABORTED", TimeoutMessage15)

TxtTrue == <<"t","r","u","e">>

TxtFalse == <<"f","a","l","s","e">>

TxtIE == <<"I","E">>

TxtNumber == <<"6","3","8","8","0","4","7","V">>

TxtAcme == <<"A","C","M","E">>

TxtMsUnavailable == <<"M","S"," ","U","n","a","v","a","i","l","a","b","l","e">>

TxtServerBusy == <<"S","e","r","v","e","r"," ","B","u","s","y">>

TxtForbidden ==
  <<"<","h","t","m","l",">","F","o","r","b","i","d","d","e","n","<","/","h","t","m","l",">">>

BodyValid ==
  Elem(Ns2, TagCountryCode, TxtIE) \o Elem(Ns2, TagVatNumber, TxtNumber)
  \o Elem(Ns2, TagValid, TxtTrue) \o Elem(Ns2, TagName, TxtAcme)

BodyNoValidElement == Elem(Ns2, TagCountryCode, TxtIE) \o Elem(Ns2, TagName, TxtAcme)

BodyFault(text) == Elem(<<>>, TagFaultstring, text)

\* the replies of the registry the request pipeline is run against
ViesReplies ==
  { ViesOk(Text(BodyValid)),
    ViesOk(Text(BodyNoValidElement)),
    ViesOk(Text(<<" ", "\n">>)),
    ViesOk(Text(BodyFault(TxtServerBusy))),
    ViesTimedOut,
    HttpError(403, Text(TxtForbidden)),
    HttpError(403, NotText),
    HttpError(403, Text(BodyFault(TxtMsUnavailable))),
    HttpError(503, Text(<<>>)),
    HttpError(500, Text(BodyFault(TxtMsUnavailable))),
    NoResponseError("ECONNREFUSED",
      <<"c","o","n","n","e","c","t"," ","E","C","O","N","N","R","E","F","U","S","E","D">>),
    OtherThrow(TRUE, <<"b","o","o","m">>) }

NoData ==
  [isObject |-> FALSE, validIsBoolean |-> FALSE, valid |-> FALSE,
   country_code |-> Undef, vat_number |-> Undef, company_name |-> Undef,
   company_address |-> Undef]

NoVlErr == [isAxios |-> FALSE, isError |-> FALSE, message |-> <<>>, info |-> Undef]

VatlayerOk(data) == [ok |-> TRUE, data |-> data, err |-> NoVlErr]

VatlayerFailed(isAxios, message, info) ==
  [ok |-> FALSE, data |-> NoData,
   err |-> [isAxios |-> isAxios, isError |-> TRUE, message |-> message,
            info |-> info]]

\* the 10 s timeout of the fallback call expired
VatlayerTimedOut == VatlayerFailed(TRUE, TimeoutMessage10, Undef)

\* the replies of the fallback provider
VatlayerReplies ==
  { VatlayerOk([isObject |-> TRUE, validIsBoolean |-> TRUE, valid |-> TRUE,
                country_code |-> Dyn(TxtIE), vat_number |-> Undef,
                company_name |-> Dyn(TxtAcme), company_address |-> Undef]),
    VatlayerOk([isObject |-> TRUE, validIsBoolean |-> TRUE, valid |-> FALSE,
                country_code |-> Undef, vat_number |-> Undef,
                company_name |-> Undef, company_address |-> Undef]),
    VatlayerOk([isObject |-> TRUE, validIsBoolean |-> FALSE, valid |-> FALSE,
                country_code |-> Undef, vat_number |-> Undef,
                company_name |-> Undef, company_address |-> Undef]),
    VatlayerTimedOut,
    VatlayerFailed(TRUE,
      <<"R","e","q","u","e","s","t"," ","f","a","i","l","e","d">>,
      Dyn(<<"i","n","v","a","l","i","d","_","a","c","c","e","s","s","_","k","e","y">>)),
    VatlayerFailed(FALSE, <<"b","o","o","m">>, Undef) }

\* what a client sends to GET /validate/:countryCode/:vatNumber
PathCountryCodes == { <<"d","e">>, <<"X","X">>, <<"I","1">> }

PathVatNumbers ==
  { <<"6","3"," ","8","8","0","-","4","7","v">>,
    <<"-">>,
    <<"1","2","3","4","5","6","7","8","9","0","1","2","3">>,
    <<"1","2","_","4","5">> }

\* what a client sends as ?vat_number= to GET /v1/validate
QueryInputs ==
  { Text(<<"I","E","6","3","8","8","0","4","7","V">>),
    Text(<<" ","d","e"," ","6","3","-","8","8","0","4","7","v"," ">>),
    Text(<<>>),
    Text(<<"I","6">>),
    Text(<<"I","E","1","2","3","4","5","6","7","8","9","0","1","2","3","4","5","6","7","8","9">>),
    NotText }

\* the values VATLAYER_API_KEY can give config.vatlayerApiKey
ConfigKeys == { Undef, Dyn(<<>>), Dyn(<<"k","e","y">>) }

\* ------------------------------------------------------------------------
\* State
\* ------------------------------------------------------------------------

VARIABLES
  vatlayerApiKey,  \* config.vatlayerApiKey
  apiKey,          \* config.apiKey
  now,             \* the clock new Date() reads
  pc,              \* per request: "idle", "vies" (awaiting axios.post),
                   \* "vatlayer" (awaiting axios.get), "done"
  route,           \* per request: "" or the route that matches its path
  input,           \* per request: what the client sent
  args,            \* per request: the validated countryCode and vatNumber
  viesCalls,       \* per request: the axios.post calls made, in order
  vatlayerCalls,   \* per request: the axios.get calls made, in order
  viesReply,       \* per request: what axios.post gave
  vatlayerReply,   \* per request: what axios.get gave
  viesError,       \* per request: what checkVat threw
  outcome,         \* per request: how validateVat ended
  responses,       \* per request: the HTTP responses sent, in order
  probeArg,        \* the argument of a function applied on its own
  probeRet,        \* its result
  probeDone        \* whether it has been applied

vars == <<vatlayerApiKey, apiKey, now, pc, route, input, args, viesCalls,
          vatlayerCalls, viesReply, vatlayerReply, viesError, outcome,
          responses, probeArg, probeRet, probeDone>>

reqVars == <<vatlayerApiKey, apiKey, now, pc, route, input, args, viesCalls,
             vatlayerCalls, viesReply, vatlayerReply, viesError, outcome,
             responses>>

probeVars == <<probeArg, probeRet, probeDone>>

\* a request without the X-API-Key and Authorization headers
NoHeaders == [xApiKey |-> Undef, authorization |-> Undef]

\* what the client sent: the path parameters or the vat_number query
\* parameter, the two headers and req.path
Received(cc, vat, raw, h, path) ==
  [countryCode |-> cc, vatNumber |-> vat, raw |-> raw, headers |-> h,
   path |-> path]

NoInput == Received(<<>>, <<>>, NotText, NoHeaders, <<>>)

NoArgs == [countryCode |-> <<>>, vatNumber |-> <<>>]

NoReply == [ok |-> FALSE, data |-> NotText, err |-> NoErr]

NoVlReply == [ok |-> FALSE, data |-> NoData, err |-> NoVlErr]

\* validateVat has not ended
Pending == [ended |-> FALSE, ok |-> FALSE, value |-> EmptyResponse, error |-> NoThrow]

Ended(o) == [ended |-> TRUE, ok |-> o.ok, value |-> o.value, error |-> o.error]

InitRequests ==
  /\ now = 0
  /\ pc = [r \in Reqs |-> "idle"]
  /\ route = [r \in Reqs |-> ""]
  /\ input = [r \in Reqs |-> NoInput]
  /\ args = [r \in Reqs |-> NoArgs]
  /\ viesCalls = [r \in Reqs |-> <<>>]
  /\ vatlayerCalls = [r \in Reqs |-> <<>>]
  /\ viesReply = [r \in Reqs |-> NoReply]
  /\ vatlayerReply = [r \in Reqs |-> NoVlReply]
  /\ viesError = [r \in Reqs |-> NoThrow]
  /\ outcome = [r \in Reqs |-> Pending]
  /\ responses = [r \in Reqs |-> <<>>]

Init ==
  /\ vatlayerApiKey \in ConfigKeys
  /\ apiKey = Undef
  /\ InitRequests
  /\ probeArg = 0
  /\ probeRet = 0
  /\ probeDone = FALSE

\* ------------------------------------------------------------------------
\* The route handlers, each cut at its awaits
\* ------------------------------------------------------------------------

\* checkVat and the validators tabulated over the replies and inputs above,
\* so that each is evaluated once per reply or input rather than once per state
CheckVatOf == [reply \in ViesReplies |-> checkVat(reply)]

PathOf ==
  [cc \in PathCountryCodes, vat \in PathVatNumbers |-> validatePathParams(cc, vat)]

QueryOf == [raw \in QueryInputs |-> validateFullVatInput(raw)]

\* a handler up to its first await: validation, then either the 400 response
\* or validateVat's call of checkVat, which builds the envelope and posts it
Handle(r, kind, cc, vat, raw, h, path, validation) ==
  /\ pc[r] = "idle"
  /\ route' = [route EXCEPT ![r] = kind]
  /\ input' = [input EXCEPT ![r] = Received(cc, vat, raw, h, path)]
  /\ IF ~optionalApiKeyMiddleware(apiKey, path, h).next
     THEN /\ responses' = [responses EXCEPT ![r] =
                 Append(@, optionalApiKeyMiddleware(apiKey, path, h).response)]
          /\ pc' = [pc EXCEPT ![r] = "done"]
          /\ UNCHANGED <<args, viesCalls>>
     ELSE IF ~validation.valid
     THEN /\ responses' = [responses EXCEPT ![r] =
                 Append(@, sendError(400, "INVALID_INPUT", Lit(validation.message), Undef))]
          /\ pc' = [pc EXCEPT ![r] = "done"]
          /\ UNCHANGED <<args, viesCalls>>
     ELSE /\ args' = [args EXCEPT ![r] =
                 [countryCode |-> validation.countryCode,
                  vatNumber |-> validation.vatNumber]]
          /\ viesCalls' = [viesCalls EXCEPT ![r] =
                 Append(@, [countryCode |-> validation.countryCode,
                            vatNumber |-> validation.vatNumber,
                            envelope |-> buildSoapEnvelope(validation.countryCode,
                                                           validation.vatNumber)])]
          /\ pc' = [pc EXCEPT ![r] = "vies"]
          /\ UNCHANGED responses
  /\ UNCHANGED <<vatlayerApiKey, apiKey, now, vatlayerCalls, viesReply, vatlayerReply,
                 viesError, outcome, probeVars>>

\* what the handlers without a lookup send: the status body of /health, the
\* welcome body of /, and the 404 of the paths without a route
answerOf(kind) ==
  IF kind = "unknown"
  THEN sendError(404, "NOT_FOUND",
                 Lit("The requested endpoint was not found."), Undef)
  ELSE sendJson(NoBody)

\* a handler that answers at once with a body of its own
Answer(r, kind, h, path) ==
  /\ pc[r] = "idle"
  /\ route' = [route EXCEPT ![r] = kind]
  /\ input' = [input EXCEPT ![r] = Received(<<>>, <<>>, NotText, h, path)]
  /\ responses' = [responses EXCEPT ![r] =
        Append(@, IF optionalApiKeyMiddleware(apiKey, path, h).next
                  THEN answerOf(kind)
                  ELSE optionalApiKeyMiddleware(apiKey, path, h).response)]
  /\ pc' = [pc EXCEPT ![r] = "done"]
  /\ UNCHANGED <<vatlayerApiKey, apiKey, now, args, viesCalls, vatlayerCalls,
                 viesReply, vatlayerReply, viesError, outcome, probeVars>>

\* req.path of GET /validate/:countryCode/:vatNumber
ValidatePath(cc, vat) ==
  <<"/","v","a","l","i","d","a","t","e","/">> \o cc \o <<"/">> \o vat

V1ValidatePath == <<"/","v","1","/","v","a","l","i","d","a","t","e">>

\* GET /validate/:countryCode/:vatNumber sent with one of the headers H
GetValidatePathWith(r, H) ==
  \E cc \in PathCountryCodes, vat \in PathVatNumbers, h \in H :
    Handle(r, "path", cc, vat, NotText, h, ValidatePath(cc, vat), PathOf[cc, vat])

\* GET /v1/validate?vat_number= sent with one of the headers H
GetV1ValidateWith(r, H) ==
  \E raw \in QueryInputs, h \in H :
    Handle(r, "query", <<>>, <<>>, raw, h, V1ValidatePath, QueryOf[raw])

\* GET /validate/:countryCode/:vatNumber
GetValidatePath(r) == GetValidatePathWith(r, {NoHeaders})

\* GET /v1/validate?vat_number=
GetV1Validate(r) == GetV1ValidateWith(r, {NoHeaders})

\* GET /health
GetHealth(r, H) == \E h \in H : Answer(r, "health", h, HealthPath)

\* GET /
GetRoot(r, H) == \E h \in H : Answer(r, "root", h, RootPath)

UnknownPath == <<"/","n","o","t","h","i","n","g">>

\* the 404 handler for the paths without a route
GetUnknown(r, H) == \E h \in H : Answer(r, "unknown", h, UnknownPath)

\* axios.post settles: the rest of checkVat, validateVat's catch block and,
\* unless the fallback is called, the rest of the handler
ViesSettles(r) ==
  /\ pc[r] = "vies"
  /\ \E reply \in ViesReplies :
       LET o == CheckVatOf[reply] IN
       /\ viesReply' = [viesReply EXCEPT ![r] = reply]
       /\ viesError' = [viesError EXCEPT ![r] = o.error]
       /\ IF o.ok
          THEN /\ outcome' = [outcome EXCEPT ![r] = Ended(o)]
               /\ responses' = [responses EXCEPT ![r] =
                     Append(@, sendJson(toApiResponse(o.value, now)))]
               /\ pc' = [pc EXCEPT ![r] = "done"]
               /\ UNCHANGED vatlayerCalls
          ELSE IF useVatlayer(vatlayerApiKey, o.error)
          THEN /\ vatlayerCalls' = [vatlayerCalls EXCEPT ![r] =
                     Append(@, vatlayerRequest(vatlayerApiKey.dyn,
                                               args[r].countryCode,
                                               args[r].vatNumber))]
               /\ pc' = [pc EXCEPT ![r] = "vatlayer"]
               /\ UNCHANGED <<outcome, responses>>
          ELSE /\ outcome' = [outcome EXCEPT ![r] = Ended(o)]
               /\ responses' = [responses EXCEPT ![r] =
                     Append(@, handlerCatch(o.error))]
               /\ pc' = [pc EXCEPT ![r] = "done"]
               /\ UNCHANGED vatlayerCalls
  /\ UNCHANGED <<vatlayerApiKey, apiKey, now, route, input, args, viesCalls,
                 vatlayerReply, probeVars>>

\* VatlayerSettles with the arguments of the fallback call kept in one place
\* for all requests: they are those of any request that has been validated
VatlayerSettlesSharedArgs(r) ==
  /\ pc[r] = "vatlayer"
  /\ \E reply \in VatlayerReplies, q \in {x \in Reqs : args[x] # NoArgs} :
       LET o == checkVatViaVatlayer(reply, args[q].countryCode,
                                    args[q].vatNumber, now) IN
       /\ vatlayerReply' = [vatlayerReply EXCEPT ![r] = reply]
       /\ outcome' = [outcome EXCEPT ![r] = Ended(o)]
       /\ responses' = [responses EXCEPT ![r] =
             Append(@, IF o.ok THEN sendJson(toApiResponse(o.value, now))
                       ELSE handlerCatch(o.error))]
       /\ pc' = [pc EXCEPT ![r] = "done"]
  /\ UNCHANGED <<vatlayerApiKey, apiKey, now, route, input, args, viesCalls,
                 vatlayerCalls, viesReply, viesError, probeVars>>

\* axios.get settles: the rest of checkVatViaVatlayer and of the handler
VatlayerSettles(r) ==
  /\ pc[r] = "vatlayer"
  /\ \E reply \in VatlayerReplies :
       LET o == checkVatViaVatlayer(reply, args[r].countryCode,
                                    args[r].vatNumber, now) IN
       /\ vatlayerReply' = [vatlayerReply EXCEPT ![r] = reply]
       /\ outcome' = [outcome EXCEPT ![r] = Ended(o)]
       /\ responses' = [responses EXCEPT ![r] =
             Append(@, IF o.ok THEN sendJson(toApiResponse(o.value, now))
                       ELSE handlerCatch(o.error))]
       /\ pc' = [pc EXCEPT ![r] = "done"]
  /\ UNCHANGED <<vatlayerApiKey, apiKey, now, route, input, args, viesCalls,
                 vatlayerCalls, viesReply, viesError, probeVars>>

\* time passes
Tick ==
  /\ now < MaxNow
  /\ now' = now + 1
  /\ UNCHANGED <<vatlayerApiKey, apiKey, pc, route, input, args, viesCalls,
                 vatlayerCalls, viesReply, vatlayerReply, viesError, outcome,
                 responses, probeVars>>

Next ==
  \/ \E r \in Reqs : GetValidatePath(r)
  \/ \E r \in Reqs : GetV1Validate(r)
  \/ \E r \in Reqs : ViesSettles(r)
  \/ \E r \in Reqs : VatlayerSettles(r)
  \/ Tick

Spec == Init /\ [][Next]_vars

\* ------------------------------------------------------------------------
\* The API key: one request with every combination of configuration, path
\* and headers
\* ------------------------------------------------------------------------

TheKey == <<"k","e","y">>

\* the values of the API_KEY environment variable
ApiKeyEnvs ==
  { Undef, Dyn(<<>>), Dyn(<<" ">>), Dyn(TheKey), Dyn(<<" ","k","e","y"," ">>) }

\* the values of the X-API-Key header
XApiKeys ==
  { Undef, Dyn(<<>>), Dyn(<<" ">>), Dyn(TheKey), Dyn(<<" ","k","e","y"," ">>),
    Dyn(<<"b","a","d">>) }

\* the values of the Authorization header
Authorizations ==
  { Undef,
    Dyn(<<"B","e","a","r","e","r"," ","k","e","y">>),
    Dyn(<<"B","e","a","r","e","r"," ","b","a","d">>),
    Dyn(<<"B","e","a","r","e","r"," ">>),
    Dyn(<<"B","a","s","i","c"," ","k","e","y">>),
    Dyn(<<"b","e","a","r","e","r"," ","k","e","y">>),
    Dyn(<<"B","e","a","r","e","r"," "," ","k","e","y"," ">>) }

RequestHeaders ==
  { [xApiKey |-> x, authorization |-> a] : x \in XApiKeys, a \in Authorizations }

OneReq == {"r1"}

InitApiKey ==
  /\ vatlayerApiKey \in ConfigKeys
  /\ apiKey \in { configApiKey(env) : env \in ApiKeyEnvs }
  /\ InitRequests
  /\ probeArg = 0
  /\ probeRet = 0
  /\ probeDone = FALSE

NextApiKey ==
  \/ \E r \in OneReq : GetValidatePathWith(r, RequestHeaders)
  \/ \E r \in OneReq : GetV1ValidateWith(r, RequestHeaders)
  \/ \E r \in OneReq : GetHealth(r, RequestHeaders)
  \/ \E r \in OneReq : GetRoot(r, RequestHeaders)
  \/ \E r \in OneReq : GetUnknown(r, RequestHeaders)
  \/ \E r \in OneReq : ViesSettles(r)
  \/ \E r \in OneReq : VatlayerSettles(r)
  \/ Tick

SpecApiKey == InitApiKey /\ [][NextApiKey]_vars

\* ------------------------------------------------------------------------
\* The responses: two requests with an API key configured, each provider call
\* settling in the end (axios gives up after its timeout)
\* ------------------------------------------------------------------------

\* the key in X-API-Key, a wrong key as a Bearer token
GateHeaders ==
  { [xApiKey |-> Dyn(TheKey), authorization |-> Undef],
    [xApiKey |-> Undef,
     authorization |-> Dyn(<<"B","e","a","r","e","r"," ","b","a","d">>)] }

InitResponses ==
  /\ vatlayerApiKey \in ConfigKeys
  /\ apiKey = configApiKey(Dyn(TheKey))
  /\ InitRequests
  /\ probeArg = 0
  /\ probeRet = 0
  /\ probeDone = FALSE

NextResponses ==
  \/ \E r \in Reqs : GetValidatePathWith(r, GateHeaders)
  \/ \E r \in Reqs : GetV1ValidateWith(r, GateHeaders)
  \/ \E r \in Reqs : ViesSettles(r)
  \/ \E r \in Reqs : VatlayerSettles(r)
  \/ Tick

\* axios.post (timeout 15000) and axios.get (timeout 10000) settle
ProvidersSettle ==
  \A r \in Reqs : WF_vars(ViesSettles(r)) /\ WF_vars(VatlayerSettles(r))

SpecResponses == InitResponses /\ [][NextResponses]_vars /\ ProvidersSettle

\* ------------------------------------------------------------------------
\* Functions applied on their own
\* ------------------------------------------------------------------------

\* the sequences over S of length at most n
SeqsUpTo(S, n) == UNION {[1..k -> S] : k \in 0..n}

RECURSIVE Concat(_)
Concat(parts) == IF parts = <<>> THEN <<>> ELSE Head(parts) \o Concat(Tail(parts))

\* a fault text is made of at most MaxFaultParts of the fragments below
MaxFaultParts == 2

FaultFragments ==
  { <<"S","e","r","v","i","c","e"," ","U","n","a","v","a","i","l","a","b","l","e">>,
    <<"S","E","R","V","E","R"," ","D","O","W","N">>,
    <<"M","S"," ","U","n","a","v","a","i","l","a","b","l","e">>,
    <<"m","e","m","b","e","r"," ","s","t","a","t","e">>,
    <<"I","n","v","a","l","i","d">>,
    <<"t","i","m","e","o","u","t">>,
    <<"T","i","m","e","d"," ","O","u","t">>,
    <<"b","u","s","y">>,
    <<"O","v","e","r","l","o","a","d","e","d">>,
    <<"t","i","m","e">>,
    <<"o","u","t">>,
    <<"M","S","_","U","N","A","V","A","I","L","A","B","L","E">>,
    <<" ">> }

FaultTexts == {Concat(parts) : parts \in SeqsUpTo(FaultFragments, MaxFaultParts)}

NoClass == [code |-> "", statusCode |-> 0]

InitFault ==
  /\ vatlayerApiKey = Undef
  /\ apiKey = Undef
  /\ InitRequests
  /\ probeArg \in FaultTexts
  /\ probeRet = NoClass
  /\ probeDone = FALSE

\* the call normalizeFault(fault) of checkVat
ClassifyFault ==
  /\ ~probeDone
  /\ probeRet' = normalizeFault(probeArg)
  /\ probeDone' = TRUE
  /\ UNCHANGED <<probeArg, reqVars>>

NextFault == ClassifyFault

SpecFault == InitFault /\ [][NextFault]_vars

\* the validators on their own: fn names the function, raw is its argument

\* an input text is made of at most MaxInputParts of the fragments below
MaxInputParts == 2

InputFragments ==
  { <<"I">>, <<"E">>, <<"i">>, <<"e">>, <<"I","E">>, <<"i","e">>, <<"X","I">>,
    <<"X","X">>, <<"1">>, <<" ">>, <<"-">>, <<"$">>,
    TxtNumber,
    <<"6","3","8","8","-","0","4","7"," ","v">>,
    <<"1","2","3","4","5","6","7","8","9","0","1","2">>,
    <<"I","E","6","3","8","8","0","4","7","V">>,
    <<" "," "," "," "," "," "," "," "," "," "," ">> }

InputTexts == {Concat(parts) : parts \in SeqsUpTo(InputFragments, MaxInputParts)}

ValidatorNames == {"validateCountryCode", "validatePathParams", "validateFullVatInput"}

ValidatorInputs ==
  {[fn |-> fn, raw |-> Text(q)] : fn \in ValidatorNames, q \in InputTexts}
  \cup {[fn |-> "validateFullVatInput", raw |-> NotText]}

InitValidators ==
  /\ vatlayerApiKey = Undef
  /\ apiKey = Undef
  /\ InitRequests
  /\ probeArg \in ValidatorInputs
  /\ probeRet = NoError
  /\ probeDone = FALSE

\* validateCountryCode(raw)
CallValidateCountryCode ==
  /\ ~probeDone
  /\ probeArg.fn = "validateCountryCode"
  /\ probeRet' = validateCountryCode(probeArg.raw.text)
  /\ probeDone' = TRUE
  /\ UNCHANGED <<probeArg, reqVars>>

\* validatePathParams("IE", raw): normalizeVatNumber, then validateVatNumber
CallValidatePathParams ==
  /\ ~probeDone
  /\ probeArg.fn = "validatePathParams"
  /\ probeRet' = validatePathParams(TxtIE, probeArg.raw.text)
  /\ probeDone' = TRUE
  /\ UNCHANGED <<probeArg, reqVars>>

\* validateFullVatInput(raw)
CallValidateFullVatInput ==
  /\ ~probeDone
  /\ probeArg.fn = "validateFullVatInput"
  /\ probeRet' = validateFullVatInput(probeArg.raw)
  /\ probeDone' = TRUE
  /\ UNCHANGED <<probeArg, reqVars>>

NextValidators ==
  \/ CallValidateCountryCode
  \/ CallValidatePathParams
  \/ CallValidateFullVatInput

SpecValidators == InitValidators /\ [][NextValidators]_vars

\* checkVat on its own: what axios.post gives it is described by the text
\* and elements of the body and, when the call failed, the error's fields

\* a body holds at most MaxElems elements
MaxElems == 2

TagInvalid == <<"i","n","v","a","l","i","d">>

\* elements a body is made of: [ns, tag, text]
BodyElems ==
  { [ns |-> Ns2,  tag |-> TagValid, text |-> TxtTrue],
    [ns |-> <<>>, tag |-> TagValid, text |-> <<"T","R","U","E">>],
    [ns |-> <<>>, tag |-> TagValid, text |-> <<" ","T","r","u","e","\n">>],
    [ns |-> Ns2,  tag |-> TagValid, text |-> TxtFalse],
    [ns |-> <<>>, tag |-> TagValid, text |-> <<>>],
    [ns |-> <<>>, tag |-> TagValid, text |-> <<"t","r","u","e","r">>],
    [ns |-> <<>>, tag |-> TagFaultstring, text |-> TxtMsUnavailable],
    [ns |-> <<>>, tag |-> TagFaultstring, text |-> TxtServerBusy],
    [ns |-> <<>>, tag |-> TagFaultstring, text |-> <<>>],
    [ns |-> <<>>, tag |-> TagFaultstring, text |-> <<" ">>],
    [ns |-> <<>>, tag |-> TagFaultstring,
     text |-> <<"I","N","V","A","L","I","D","_","I","N","P","U","T">>],
    [ns |-> <<>>, tag |-> TagFaultstring, text |-> <<"T","i","m","e","o","u","t">>],
    [ns |-> <<>>, tag |-> TagFaultstring,
     text |-> <<"S","E","R","V","I","C","E","_","U","N","A","V","A","I","L","A","B","L","E">>],
    [ns |-> Ns2,  tag |-> TagCountryCode, text |-> TxtIE],
    [ns |-> <<>>, tag |-> TagName, text |-> TxtAcme],
    [ns |-> <<>>, tag |-> TagInvalid, text |-> TxtTrue] }

\* response.data: not a string, or the text pre followed by the elements
Payload(isString, pre, elems) == [isString |-> isString, pre |-> pre, elems |-> elems]

NoPayload == Payload(FALSE, <<>>, <<>>)

RECURSIVE renderElems(_)
renderElems(elems) ==
  IF elems = <<>> THEN <<>>
  ELSE Elem(Head(elems).ns, Head(elems).tag, Head(elems).text) \o renderElems(Tail(elems))

renderPayload(p) ==
  IF p.isString THEN Text(p.pre \o renderElems(p.elems)) ELSE NotText

\* bodies of 2xx responses
OkPayloads ==
  {Payload(TRUE, <<>>, elems) : elems \in SeqsUpTo(BodyElems, MaxElems)}
  \cup {Payload(TRUE, pre, <<>>) : pre \in {<<" ", "\n">>, <<"\t">>, TxtAcme}}
  \cup {NoPayload}

\* bodies of responses outside 2xx
ErrorPayloads ==
  { NoPayload,
    Payload(TRUE, <<>>, <<>>),
    Payload(TRUE, TxtForbidden, <<>>),
    Payload(TRUE, <<>>, <<[ns |-> <<>>, tag |-> TagFaultstring, text |-> TxtMsUnavailable]>>),
    Payload(TRUE, <<>>, <<[ns |-> <<>>, tag |-> TagFaultstring, text |-> <<>>]>>),
    Payload(TRUE, <<>>, <<[ns |-> <<>>, tag |-> TagFaultstring, text |-> <<" ">>]>>),
    Payload(TRUE, <<>>, <<[ns |-> <<>>, tag |-> TagFaultstring,
                           text |-> <<"S","e","r","v","i","c","e"," ","U","n","a","v","a","i","l","a","b","l","e">>]>>) }

ErrorCodes ==
  {"", "ECONNABORTED", "ETIMEDOUT", "ECONNREFUSED", "ERR_BAD_REQUEST", "ERR_BAD_RESPONSE"}

ErrorMessages ==
  { TimeoutMessage15,
    <<"G","a","t","e","w","a","y"," ","T","i","m","e","o","u","t">>,
    <<"R","e","q","u","e","s","t"," ","f","a","i","l","e","d">>,
    <<"s","o","c","k","e","t"," ","h","a","n","g"," ","u","p">> }

ErrorStatuses == {304, 400, 403, 404, 500, 503}

ErrFields(isAxios, isError, code, message, hasResponse, status) ==
  [isAxios |-> isAxios, isError |-> isError, code |-> code, message |-> message,
   hasResponse |-> hasResponse, status |-> status]

NoErrFields == ErrFields(FALSE, FALSE, "", <<>>, FALSE, 0)

\* what axios.post can give checkVat
CheckVatInputs ==
  {[ok |-> TRUE, payload |-> p, err |-> NoErrFields] : p \in OkPayloads}
  \cup {[ok |-> FALSE, payload |-> NoPayload,
         err |-> ErrFields(TRUE, TRUE, code, message, FALSE, 0)] :
          code \in ErrorCodes, message \in ErrorMessages}
  \cup {[ok |-> FALSE, payload |-> p,
         err |-> ErrFields(TRUE, TRUE, code, message, TRUE, status)] :
          code \in ErrorCodes, message \in ErrorMessages,
          status \in ErrorStatuses, p \in ErrorPayloads}
  \cup {[ok |-> FALSE, payload |-> NoPayload,
         err |-> ErrFields(FALSE, isError, "", message, FALSE, 0)] :
          isError \in BOOLEAN, message \in {<<"b","o","o","m">>, TimeoutMessage15}}

\* the settled axios.post as checkVat sees it
renderReply(in) ==
  IF in.ok THEN ViesOk(renderPayload(in.payload))
  ELSE [ok |-> FALSE, data |-> NotText,
        err |-> [isAxios |-> in.err.isAxios, isError |-> in.err.isError,
                 code |-> in.err.code, message |-> in.err.message,
                 hasResponse |-> in.err.hasResponse, status |-> in.err.status,
                 data |-> renderPayload(in.payload)]]

NotSettled == [ok |-> FALSE, value |-> EmptyResponse, error |-> NoThrow]

InitCheckVat ==
  /\ vatlayerApiKey = Undef
  /\ apiKey = Undef
  /\ InitRequests
  /\ probeArg \in CheckVatInputs
  /\ probeRet = NotSettled
  /\ probeDone = FALSE

\* checkVat from the settling of axios.post to its return or throw
CheckVatSettles ==
  /\ ~probeDone
  /\ \E reply \in {renderReply(probeArg)} : probeRet' = checkVat(reply)
  /\ probeDone' = TRUE
  /\ UNCHANGED <<probeArg, reqVars>>

NextCheckVat == CheckVatSettles

SpecCheckVat == InitCheckVat /\ [][NextCheckVat]_vars

\* checkVatViaVatlayer on its own: the JSON fields are absent or null (Undef),
\* empty or filled

JsonFields == {Undef, Dyn(<<>>), Dyn(TxtAcme)}

VatlayerJson ==
  {[isObject |-> TRUE, validIsBoolean |-> TRUE, valid |-> v,
    country_code |-> cc, vat_number |-> vat, company_name |-> name,
    company_address |-> addr] :
      v \in BOOLEAN, cc \in JsonFields, vat \in JsonFields,
      name \in JsonFields, addr \in JsonFields}
  \cup {[NoData EXCEPT !.isObject = TRUE],
        [NoData EXCEPT !.isObject = TRUE, !.company_name = Dyn(TxtAcme)],
        NoData}

VatlayerInputs ==
  {[reply |-> reply, countryCode |-> TxtIE, vatNumber |-> TxtNumber, t |-> t] :
     reply \in {VatlayerOk(data) : data \in VatlayerJson} \cup VatlayerReplies,
     t \in 0..MaxNow}

InitVatlayer ==
  /\ vatlayerApiKey = Undef
  /\ apiKey = Undef
  /\ InitRequests
  /\ probeArg \in VatlayerInputs
  /\ probeRet = NotSettled
  /\ probeDone = FALSE

\* checkVatViaVatlayer from the settling of axios.get to its return or throw
VatlayerCallSettles ==
  /\ ~probeDone
  /\ probeRet' = checkVatViaVatlayer(probeArg.reply, probeArg.countryCode,
                                     probeArg.vatNumber, probeArg.t)
  /\ probeDone' = TRUE
  /\ UNCHANGED <<probeArg, reqVars>>

NextVatlayer == VatlayerCallSettles

SpecVatlayer == InitVatlayer /\ [][NextVatlayer]_vars

\* buildSoapEnvelope and extractTag on their own: the VAT number is made of
\* at most MaxInputParts of the fragments below

VatFragments ==
  { <<"6","3","8","8">>, <<"0","4","7","V">>, <<"6","3","8","8"," ","0","4","7","V">>,
    <<"v">>, <<" ">>, <<"-">>,
    <<"\t">>, <<"&">>, <<"<">>, <<">">>, <<"\"">>, <<"'">>,
    <<"&","a","m","p",";">>, <<"/","u","r","n",":","v","a","t","N","u","m","b","e","r">> }

EnvelopeInputs ==
  {[countryCode |-> cc, vatNumber |-> Concat(parts)] :
     cc \in {TxtIE, <<"<","a",">">>},
     parts \in SeqsUpTo(VatFragments, MaxInputParts)}

InitEnvelope ==
  /\ vatlayerApiKey = Undef
  /\ apiKey = Undef
  /\ InitRequests
  /\ probeArg \in EnvelopeInputs
  /\ probeRet = NotFound
  /\ probeDone = FALSE

\* extractTag(buildSoapEnvelope(countryCode, vatNumber), "vatNumber")
ExtractFromEnvelope ==
  /\ ~probeDone
  /\ \E envelope \in {buildSoapEnvelope(probeArg.countryCode, probeArg.vatNumber)} :
       probeRet' = extractTag(envelope, TagVatNumber)
  /\ probeDone' = TRUE
  /\ UNCHANGED <<probeArg, reqVars>>

NextEnvelope == ExtractFromEnvelope

SpecEnvelope == InitEnvelope /\ [][NextEnvelope]_vars

\* ------------------------------------------------------------------------
\* Claims
\* ------------------------------------------------------------------------

\* the rules of fault classification in their stated order: the words of
\* each rule, its kind and its status
ClaimedFaultRules ==
  << [words |-> { <<"s","e","r","v","i","c","e"," ","u","n","a","v","a","i","l","a","b","l","e">>,
                  <<"s","e","r","v","e","r"," ","d","o","w","n">> },
      code |-> "SERVICE_UNAVAILABLE", statusCode |-> 503],
     [words |-> { <<"m","s"," ","u","n","a","v","a","i","l","a","b","l","e">>,
                  <<"m","e","m","b","e","r"," ","s","t","a","t","e">> },
      code |-> "MS_UNAVAILABLE", statusCode |-> 503],
     [words |-> { <<"i","n","v","a","l","i","d">> },
      code |-> "INVALID_INPUT", statusCode |-> 400],
     [words |-> { <<"t","i","m","e","o","u","t">>, <<"t","i","m","e","d"," ","o","u","t">> },
      code |-> "TIMEOUT", statusCode |-> 504],
     [words |-> { <<"b","u","s","y">>, <<"o","v","e","r","l","o","a","d","e","d">> },
      code |-> "SERVER_BUSY", statusCode |-> 503] >>

RuleMatches(rule, text) == \E w \in rule.words : includes(toLowerCase(text), w)

ClaimedFaultClass(text) ==
  LET M == {i \in 1..Len(ClaimedFaultRules) : RuleMatches(ClaimedFaultRules[i], text)} IN
  IF M = {} THEN [code |-> "UNKNOWN_ERROR", statusCode |-> 502]
  ELSE LET i == CHOOSE x \in M : \A y \in M : x <= y IN
       [code |-> ClaimedFaultRules[i].code,
        statusCode |-> ClaimedFaultRules[i].statusCode]

\* C8: for every fault string, normalizeFault returns the kind and status of
\* the first rule, in the stated order, one of whose words occurs in the
\* string in any case, and UNKNOWN_ERROR/502 when no rule matches.
C8_FaultPriority == probeDone => probeRet = ClaimedFaultClass(probeArg)

\* a fault string with both "busy" and "invalid" has been classified
C8_Witness ==
  /\ probeDone
  /\ includes(toLowerCase(probeArg), <<"b","u","s","y">>)
  /\ includes(toLowerCase(probeArg), <<"i","n","v","a","l","i","d">>)
  /\ probeRet = [code |-> "INVALID_INPUT", statusCode |-> 400]

\* two uppercase letters of the allow-list
ClaimedCountryCode(cc) ==
  /\ Len(cc) = 2
  /\ cc[1] \in UpperChars
  /\ cc[2] \in UpperChars
  /\ cc \in EU_COUNTRY_CODES

\* ^[A-Z0-9]{2,12}$
ClaimedVatNumber(vat) ==
  /\ Len(vat) \in 2..12
  /\ \A i \in 1..Len(vat) : vat[i] \in UpperChars \cup DigitChars

CallsOf(r) ==
  {viesCalls[r][i] : i \in 1..Len(viesCalls[r])}
  \cup {[countryCode |-> vatlayerCalls[r][i].countryCode,
         vatNumber |-> vatlayerCalls[r][i].vatNumber,
         envelope |-> <<>>] : i \in 1..Len(vatlayerCalls[r])}

\* what validation makes of the input of a request that has arrived
ValidationOf(r) ==
  IF route[r] = "path" THEN PathOf[input[r].countryCode, input[r].vatNumber]
  ELSE QueryOf[input[r].raw]

Rejected(r) ==
  /\ pc[r] = "done"
  /\ viesCalls[r] = <<>>
  /\ vatlayerCalls[r] = <<>>
  /\ Len(responses[r]) = 1
  /\ responses[r][1].status = 400
  /\ responses[r][1].error = "INVALID_INPUT"

\* C1: no call of the registry or of the fallback provider is made unless
\* validation of the request's input succeeded; every call carries a country
\* code of two uppercase letters that is in the allow-list and a VAT number
\* matching ^[A-Z0-9]{2,12}$; a request whose validation fails ends with
\* INVALID_INPUT at HTTP 400 and no call.
C1_ValidatedBeforeNetwork ==
  \A r \in Reqs :
    /\ \A c \in CallsOf(r) :
         ClaimedCountryCode(c.countryCode) /\ ClaimedVatNumber(c.vatNumber)
    /\ CallsOf(r) # {} => route[r] # "" /\ ValidationOf(r).valid
    /\ route[r] # "" /\ ~ValidationOf(r).valid => Rejected(r)

\* one request was rejected without a call while another, sent in lower case
\* with spaces and a hyphen, reached the registry with normalized arguments
C1_Witness ==
  \E r, q \in Reqs :
    /\ route[q] = "path" /\ input[q].vatNumber = <<"1","2","_","4","5">>
    /\ Rejected(q)
    /\ route[r] = "query"
    /\ input[r].raw = Text(<<" ","d","e"," ","6","3","-","8","8","0","4","7","v"," ">>)
    /\ Len(viesCalls[r]) = 1
    /\ viesCalls[r][1].countryCode = <<"D","E">>
    /\ viesCalls[r][1].vatNumber = TxtNumber

\* a credential is configured
KeyConfigured == vatlayerApiKey # Undef /\ vatlayerApiKey.dyn # <<>>

\* checkVat threw
RegistryFailed(r) == viesError[r] # NoThrow

IpBlockedKind(e) ==
  e.isVies /\ e.code = "SERVICE_UNAVAILABLE" /\ e.statusCode = 502

\* C2: the fallback provider is called if and only if the registry call
\* failed with SERVICE_UNAVAILABLE at status 502 and a credential is
\* configured; after any other registry failure the caller gets the
\* registry's error itself (kind, status and detail) and the fallback
\* provider is not called.
C2_FallbackIffIpBlocked ==
  \A r \in Reqs :
    /\ vatlayerCalls[r] # <<>>
         <=> (RegistryFailed(r) /\ IpBlockedKind(viesError[r]) /\ KeyConfigured)
    /\ RegistryFailed(r) /\ ~(IpBlockedKind(viesError[r]) /\ KeyConfigured)
         => /\ outcome[r].ended
            /\ ~outcome[r].ok
            /\ outcome[r].error = viesError[r]
            /\ vatlayerCalls[r] = <<>>

\* with a credential configured, one request got SERVICE_UNAVAILABLE at 503
\* and no fallback call, another SERVICE_UNAVAILABLE at 502 and a fallback call
C2_Witness ==
  \E r, q \in Reqs :
    /\ KeyConfigured
    /\ viesError[q].code = "SERVICE_UNAVAILABLE" /\ viesError[q].statusCode = 503
    /\ outcome[q].ended /\ outcome[q].error = viesError[q]
    /\ vatlayerCalls[q] = <<>>
    /\ IpBlockedKind(viesError[r])
    /\ Len(vatlayerCalls[r]) = 1

ClosedErrorKinds ==
  {"SERVICE_UNAVAILABLE", "MS_UNAVAILABLE", "INVALID_INPUT", "TIMEOUT",
   "SERVER_BUSY", "NETWORK_ERROR", "PARSE_ERROR", "UNKNOWN_ERROR"}

\* C3: validateVat ends either with a result and no error, or with an error
\* whose kind is one of the eight error kinds, also when the fallback
\* provider's request fails or its response is malformed.
C3_ClosedOutcome ==
  \A r \in Reqs :
    outcome[r].ended =>
      IF outcome[r].ok THEN outcome[r].error = NoThrow
      ELSE outcome[r].error.isVies /\ outcome[r].error.code \in ClosedErrorKinds

\* the registry answered 403 without a faultstring in the body
Forbidden403NoFault(reply) ==
  /\ ~reply.ok
  /\ reply.err.isAxios
  /\ reply.err.hasResponse
  /\ reply.err.status = 403
  /\ ~(reply.err.data.isString
       /\ includes(toLowerCase(reply.err.data.text), TagFaultstring))

\* C4: a request calls the registry at most once and the fallback provider
\* at most once, the latter only after the registry call failed; a registry
\* answer of status 403 without fault body is SERVICE_UNAVAILABLE at 502 and
\* leads to exactly one fallback call with a credential configured and to
\* none without.
C4_AtMostOnceEach ==
  \A r \in Reqs :
    /\ Len(viesCalls[r]) <= 1
    /\ Len(vatlayerCalls[r]) <= 1
    /\ vatlayerCalls[r] # <<>> => Len(viesCalls[r]) = 1 /\ RegistryFailed(r)
    /\ pc[r] \in {"vatlayer", "done"} /\ Forbidden403NoFault(viesReply[r])
         => /\ IpBlockedKind(viesError[r])
            /\ Len(vatlayerCalls[r]) = IF KeyConfigured THEN 1 ELSE 0

\* a 403 without fault body has led to one fallback call, which has settled
C4_Witness ==
  \E r \in Reqs :
    /\ pc[r] = "done"
    /\ KeyConfigured
    /\ Forbidden403NoFault(viesReply[r])
    /\ Len(viesCalls[r]) = 1
    /\ Len(vatlayerCalls[r]) = 1

\* C10: when the registry call times out the lookup fails with TIMEOUT and
\* the registry was called once; when the fallback call times out the lookup
\* fails with TIMEOUT and the fallback provider was called once.
C10_TimeoutNoRetry ==
  \A r \in Reqs :
    /\ viesReply[r] = ViesTimedOut
         => /\ outcome[r].ended /\ ~outcome[r].ok
            /\ outcome[r].error.code = "TIMEOUT"
            /\ Len(viesCalls[r]) = 1
            /\ vatlayerCalls[r] = <<>>
    /\ vatlayerReply[r] = VatlayerTimedOut
         => /\ outcome[r].ended /\ ~outcome[r].ok
            /\ outcome[r].error.code = "TIMEOUT"
            /\ Len(viesCalls[r]) = 1
            /\ Len(vatlayerCalls[r]) = 1

\* a body has an element of the given name
HasElement(p, tag) ==
  /\ p.isString
  /\ \E i \in 1..Len(p.elems) : p.elems[i].tag = tag

\* the text of the first element of the given name, without the whitespace
\* around it
FirstElementText(p, tag) ==
  LET I == {i \in 1..Len(p.elems) : p.elems[i].tag = tag} IN
  trim(p.elems[CHOOSE i \in I : \A j \in I : i <= j].text)

\* a body that is empty or whitespace only
IsBlank(p) ==
  /\ p.elems = <<>>
  /\ \A i \in 1..Len(p.pre) : p.pre[i] \in WhitespaceChars

\* the registry answered with a body
HasResponseBody(in) == in.ok \/ (in.err.isAxios /\ in.err.hasResponse)

KindOf(ret) == [code |-> ret.error.code, statusCode |-> ret.error.statusCode]

\* C5: for every response body with a faultstring element, whatever its text
\* and whatever else the body holds, checkVat throws the error of the fault's
\* classification; it returns no result and throws no PARSE_ERROR.
C5_FaultShortCircuits ==
  (probeDone /\ HasResponseBody(probeArg)
     /\ HasElement(probeArg.payload, TagFaultstring)) =>
    /\ ~probeRet.ok
    /\ probeRet.error.code # "PARSE_ERROR"
    /\ KindOf(probeRet) = ClaimedFaultClass(FirstElementText(probeArg.payload, TagFaultstring))

\* C6: for every non-empty body of a 2xx response without faultstring
\* element, checkVat throws PARSE_ERROR/502 when the body has no valid
\* element, and otherwise returns a result whose valid is TRUE exactly when
\* the text of the valid element is "true" in any case.
C6_ValidElementRequired ==
  (probeDone /\ probeArg.ok /\ probeArg.payload.isString
     /\ ~IsBlank(probeArg.payload)
     /\ ~HasElement(probeArg.payload, TagFaultstring)) =>
    IF ~HasElement(probeArg.payload, TagValid)
    THEN /\ ~probeRet.ok
         /\ KindOf(probeRet) = [code |-> "PARSE_ERROR", statusCode |-> 502]
    ELSE /\ probeRet.ok
         /\ probeRet.value.valid =
              (toLowerCase(FirstElementText(probeArg.payload, TagValid)) = TxtTrue)

\* C7: for every 2xx response whose body is empty, whitespace only or not a
\* string, checkVat throws PARSE_ERROR/502 and returns no result.
C7_EmptyBodyIsParseError ==
  (probeDone /\ probeArg.ok
     /\ (~probeArg.payload.isString \/ IsBlank(probeArg.payload))) =>
    /\ ~probeRet.ok
    /\ KindOf(probeRet) = [code |-> "PARSE_ERROR", statusCode |-> 502]

\* a whitespace-only body has been answered with PARSE_ERROR
C7_Witness ==
  /\ probeDone
  /\ probeArg.ok
  /\ probeArg.payload = Payload(TRUE, <<" ", "\n">>, <<>>)
  /\ ~probeRet.ok
  /\ probeRet.error.code = "PARSE_ERROR"

\* the error codes of connection refused / reset, DNS failure, unreachable
\* network and timeout
ClaimedNetworkCodes ==
  {"ECONNREFUSED", "ERR_CONNECTION_REFUSED", "ECONNRESET", "ERR_CONNECTION_RESET",
   "ENOTFOUND", "EAI_AGAIN", "ENETUNREACH", "ERR_NETWORK", "ETIMEDOUT"}

\* the rules of transport classification in their stated order; "timeout" is
\* looked for in the message in any case
ClaimedTransportClass(err) ==
  IF err.code = "ECONNABORTED"
     \/ includes(toLowerCase(err.message), <<"t","i","m","e","o","u","t">>)
  THEN [code |-> "TIMEOUT", statusCode |-> 504, ipBlocked |-> FALSE]
  ELSE IF err.hasResponse /\ err.status = 503
  THEN [code |-> "SERVICE_UNAVAILABLE", statusCode |-> 503, ipBlocked |-> FALSE]
  ELSE IF err.hasResponse /\ err.status = 403
  THEN [code |-> "SERVICE_UNAVAILABLE", statusCode |-> 502, ipBlocked |-> TRUE]
  ELSE IF err.code \in ClaimedNetworkCodes
  THEN [code |-> "NETWORK_ERROR", statusCode |-> 502, ipBlocked |-> FALSE]
  ELSE IF err.hasResponse /\ err.status >= 400
  THEN [code |-> "UNKNOWN_ERROR", statusCode |-> err.status, ipBlocked |-> FALSE]
  ELSE [code |-> "UNKNOWN_ERROR", statusCode |-> 502, ipBlocked |-> FALSE]

\* C9: for every AxiosError of the registry call whose response, if any, has
\* no faultstring element, checkVat throws the kind and status of the first
\* matching transport rule in the stated order, with the IP-blocking detail
\* on the 403 rule and on no other.
C9_TransportRuleOrder ==
  (probeDone /\ ~probeArg.ok /\ probeArg.err.isAxios
     /\ ~HasElement(probeArg.payload, TagFaultstring)) =>
    /\ ~probeRet.ok
    /\ probeRet.error.isVies
    /\ KindOf(probeRet) =
         [code |-> ClaimedTransportClass(probeArg.err).code,
          statusCode |-> ClaimedTransportClass(probeArg.err).statusCode]
    /\ (probeRet.error.details = Lit(IpBlockedDetail))
         = ClaimedTransportClass(probeArg.err).ipBlocked

\* an error matching the timeout rule, the 403 rule and the network-code rule
\* at once has been classified as TIMEOUT
C9_Witness ==
  /\ probeDone
  /\ ~probeArg.ok
  /\ probeArg.err.isAxios
  /\ probeArg.err.code = "ECONNREFUSED"
  /\ probeArg.err.hasResponse
  /\ probeArg.err.status = 403
  /\ probeArg.payload = Payload(TRUE, TxtForbidden, <<>>)
  /\ includes(toLowerCase(probeArg.err.message), <<"t","i","m","e","o","u","t">>)
  /\ KindOf(probeRet) = [code |-> "TIMEOUT", statusCode |-> 504]

\* the statuses the table allows a kind; upstream is the status of the
\* registry's response, 0 when there is none
ClaimedStatuses(code, upstream) ==
  CASE code = "INVALID_INPUT" -> {400}
    [] code = "MS_UNAVAILABLE" -> {503}
    [] code = "SERVICE_UNAVAILABLE" -> {502, 503}
    [] code = "TIMEOUT" -> {504}
    [] code = "SERVER_BUSY" -> {503}
    [] code = "NETWORK_ERROR" -> {502}
    [] code = "PARSE_ERROR" -> {502}
    [] code = "UNKNOWN_ERROR" -> {502} \cup {st \in {upstream} : st >= 400}
    [] OTHER -> {}

\* C11: every error checkVat throws is a classified error of one of the
\* eight kinds whose message is the fixed text of its kind, never a text that
\* came from the registry or the transport, and whose status is one the table
\* allows that kind.
C11_FixedMessageAndStatus ==
  (probeDone /\ ~probeRet.ok) =>
    /\ probeRet.error.isVies
    /\ probeRet.error.code \in ClosedErrorKinds
    /\ probeRet.error.message = Lit(VIES_ERROR_MESSAGES[probeRet.error.code])
    /\ probeRet.error.message.lit # ""
    /\ probeRet.error.statusCode
         \in ClaimedStatuses(probeRet.error.code, probeArg.err.status)

\* a fault has been classified: its raw text is the detail, the message is
\* the text of MS_UNAVAILABLE
C11_Witness ==
  /\ probeDone
  /\ probeArg.ok
  /\ ~probeRet.ok
  /\ probeRet.error.code = "MS_UNAVAILABLE"
  /\ probeRet.error.statusCode = 503
  /\ probeRet.error.details = Dyn(TxtMsUnavailable)
  /\ probeRet.error.message = Lit(VIES_ERROR_MESSAGES["MS_UNAVAILABLE"])

\* the 29 codes of the allow-list
ClaimedAllowList ==
  { <<"A","T">>, <<"B","E">>, <<"B","G">>, <<"C","Y">>, <<"C","Z">>, <<"D","E">>,
    <<"D","K">>, <<"E","E">>, <<"E","L">>, <<"E","S">>, <<"F","I">>, <<"F","R">>,
    <<"G","R">>, <<"H","R">>, <<"H","U">>, <<"I","E">>, <<"I","T">>, <<"L","T">>,
    <<"L","U">>, <<"L","V">>, <<"M","T">>, <<"N","L">>, <<"P","L">>, <<"P","T">>,
    <<"R","O">>, <<"S","E">>, <<"S","I">>, <<"S","K">>, <<"X","I">> }

\* ^[A-Z]{2}$
TwoUppercaseLetters(q) == Len(q) = 2 /\ q[1] \in UpperChars /\ q[2] \in UpperChars

CalledCountryCode == probeDone /\ probeArg.fn = "validateCountryCode"

\* C12 as stated: validateCountryCode accepts exactly the inputs that are two
\* uppercase letters and one of the 29 codes of the allow-list.
C12_AcceptsIffUppercaseAllowListed ==
  CalledCountryCode =>
    (probeRet.valid <=> /\ TwoUppercaseLetters(probeArg.raw.text)
                        /\ probeArg.raw.text \in ClaimedAllowList)

\* C12 as amended: validateCountryCode accepts exactly the inputs that,
\* converted to upper case, are two letters A-Z and one of the 29 codes of
\* the allow-list, which has XI; every other input gets a validation error.
C12_AcceptsIffAllowListedInAnyCase ==
  /\ Cardinality(ClaimedAllowList) = 29
  /\ <<"X","I">> \in ClaimedAllowList
  /\ CalledCountryCode =>
       /\ probeRet.valid <=> /\ TwoUppercaseLetters(toUpperCase(probeArg.raw.text))
                             /\ toUpperCase(probeArg.raw.text) \in ClaimedAllowList
       /\ ~probeRet.valid => probeRet.error = "Invalid Input" /\ probeRet.message # ""

\* the lower-case spelling of an allow-listed code has been accepted
C12_Witness ==
  /\ CalledCountryCode
  /\ probeArg.raw.text = <<"i","e">>
  /\ probeRet.valid

\* the input without its whitespace and hyphens, in upper case
RECURSIVE ClaimedNormalized(_)
ClaimedNormalized(q) ==
  IF q = <<>> THEN <<>>
  ELSE IF Head(q) \in WhitespaceChars \cup {"-"} THEN ClaimedNormalized(Tail(q))
  ELSE <<toUpperChar(Head(q))>> \o ClaimedNormalized(Tail(q))

\* 2 to 12 characters, letters and digits only
ClaimedVatShape(q) ==
  /\ Len(q) \in 2..12
  /\ \A i \in 1..Len(q) : q[i] \in UpperChars \cup LowerChars \cup DigitChars

CalledVatNumber == probeDone /\ probeArg.fn = "validatePathParams"

\* C13: a raw VAT number is accepted exactly when, without its whitespace and
\* hyphens and in upper case, it has 2 to 12 characters that are all letters
\* or digits; the VAT number handed on is then that normalized string.
C13_AcceptsIffNormalizedAlphanumeric ==
  CalledVatNumber =>
    /\ probeRet.valid <=> ClaimedVatShape(ClaimedNormalized(probeArg.raw.text))
    /\ probeRet.valid => probeRet.vatNumber = ClaimedNormalized(probeArg.raw.text)

\* a VAT number written with a hyphen, a space and a lower-case letter has
\* been accepted in its normalized form
C13_Witness ==
  /\ CalledVatNumber
  /\ probeArg.raw.text = <<"6","3","8","8","-","0","4","7"," ","v">>
  /\ probeRet.valid
  /\ probeRet.vatNumber = TxtNumber

CalledFullInput ==
  probeDone /\ probeArg.fn = "validateFullVatInput" /\ probeArg.raw.isString

\* the first n characters of q, and q without them
ClaimedFirst(q, n) == SubSeq(q, 1, n)

ClaimedRest(q, n) == SubSeq(q, n + 1, Len(q))

\* the outcome the claim gives an input q that is neither too long nor too
\* short: its first two characters cc and its normalized remainder, accepted
\* when the two pass the validators and returned with the code in upper case
ClaimedFullOutcome(q, cc) ==
  /\ probeRet.valid <=> /\ TwoUppercaseLetters(toUpperCase(cc))
                        /\ toUpperCase(cc) \in ClaimedAllowList
                        /\ ClaimedVatShape(ClaimedNormalized(ClaimedRest(q, 2)))
  /\ probeRet.valid => /\ probeRet.countryCode = toUpperCase(cc)
                       /\ probeRet.vatNumber = ClaimedNormalized(ClaimedRest(q, 2))

RECURSIVE ClaimedTrimmed(_)
ClaimedTrimmed(q) ==
  IF q = <<>> THEN <<>>
  ELSE IF Head(q) \in WhitespaceChars THEN ClaimedTrimmed(Tail(q))
  ELSE IF q[Len(q)] \in WhitespaceChars THEN ClaimedTrimmed(SubSeq(q, 1, Len(q) - 1))
  ELSE q

ResultFields == DOMAIN Returned(EmptyResponse).value

\* the calendar day, as YYYY-MM-DD, of the clock's half day t
ClaimedDate(t) ==
  <<"2","0","2","6","-","0","1","-","0">>
  \o << <<"1","2","3","4","5","6","7","8","9">>[(t \div 2) + 1] >>

\* C15: every result checkVatViaVatlayer returns has a null
\* consultationNumber, the current date as requestDate and the fields of a
\* registry result, whatever the provider's JSON holds.
C15_FallbackResultShape ==
  (probeDone /\ probeRet.ok) =>
    /\ probeRet.value.consultationNumber = Undef
    /\ probeRet.value.requestDate = ClaimedDate(probeArg.t)
    /\ DOMAIN probeRet.value = ResultFields
    /\ ResultFields = {"valid", "countryCode", "vatNumber", "name", "address",
                       "requestDate", "consultationNumber"}

\* a JSON with nothing but valid has become a result of the second half of
\* the first day
C15_Witness ==
  /\ probeDone
  /\ probeArg.t = 1
  /\ probeArg.reply.ok
  /\ probeArg.reply.data.country_code = Undef
  /\ probeArg.reply.data.company_name = Undef
  /\ probeRet.ok
  /\ probeRet.value.countryCode = TxtIE
  /\ probeRet.value.requestDate = <<"2","0","2","6","-","0","1","-","0","1">>

\* two lookups with the same arguments that got the same provider responses
\* and both returned a result
SameLookups(r1, r2) ==
  /\ r1 # r2
  /\ outcome[r1].ended /\ outcome[r1].ok
  /\ outcome[r2].ended /\ outcome[r2].ok
  /\ args[r1] = args[r2]
  /\ viesReply[r1] = viesReply[r2]
  /\ vatlayerReply[r1] = vatlayerReply[r2]

\* C16 as stated: two lookups with the same arguments and the same provider
\* responses return results equal in every field, whenever each of them runs.
C16_IdenticalResults ==
  \A r1, r2 \in Reqs :
    SameLookups(r1, r2) => outcome[r1].value = outcome[r2].value

WithoutDate(result) == [result EXCEPT !.requestDate = <<>>]

\* C16 as amended: two such lookups return results equal in every field but
\* requestDate, and equal in requestDate too when the result is the
\* registry's; a fallback result's requestDate is the day of its lookup.
C16_IdenticalButFallbackDate ==
  \A r1, r2 \in Reqs :
    SameLookups(r1, r2) =>
      /\ WithoutDate(outcome[r1].value) = WithoutDate(outcome[r2].value)
      /\ vatlayerCalls[r1] = <<>> => outcome[r1].value = outcome[r2].value
      /\ vatlayerCalls[r1] # <<>> =>
           \E t \in 0..MaxNow : outcome[r1].value.requestDate = ClaimedDate(t)

\* two equal lookups answered by the fallback on different days
C16_Witness ==
  /\ SameLookups("r1", "r2")
  /\ vatlayerCalls["r1"] # <<>>
  /\ vatlayerCalls["r2"] # <<>>
  /\ outcome["r1"].value.requestDate # outcome["r2"].value.requestDate
  /\ WithoutDate(outcome["r1"].value) = WithoutDate(outcome["r2"].value)

XmlMetaChars == {"&", "<", ">", "\"", "'"}

NoMetaChars(q) == \A i \in 1..Len(q) : q[i] \notin XmlMetaChars

\* C17 as stated: a VAT number without XML meta-characters comes back
\* unchanged from escaping, the envelope's vatNumber element and extraction.
C17_RoundTrip ==
  (probeDone /\ NoMetaChars(probeArg.vatNumber)) =>
    /\ probeRet.found
    /\ probeRet.text = probeArg.vatNumber

NoOuterWhitespace(q) ==
  q # <<>> => (q[1] \notin WhitespaceChars /\ q[Len(q)] \notin WhitespaceChars)

\* C17 as amended: a VAT number without XML meta-characters and without
\* whitespace at its ends comes back unchanged; one with whitespace at its
\* ends comes back without it.
C17_RoundTripTrimmed ==
  (probeDone /\ NoMetaChars(probeArg.vatNumber)) =>
    /\ probeRet.found
    /\ NoOuterWhitespace(probeArg.vatNumber) => probeRet.text = probeArg.vatNumber
    /\ probeRet.text = ClaimedTrimmed(probeArg.vatNumber)

\* a VAT number with a space inside has come back unchanged
C17_Witness ==
  /\ probeDone
  /\ probeArg.vatNumber = <<"6","3","8","8"," ","0","4","7","V">>
  /\ probeRet.found
  /\ probeRet.text = probeArg.vatNumber

\* the outcomes validateVat can have for request r when it runs alone with
\* r's arguments and r's provider responses, the fallback settling at any time
AloneOutcomes(r) ==
  IF CheckVatOf[viesReply[r]].ok
     \/ ~useVatlayer(vatlayerApiKey, CheckVatOf[viesReply[r]].error)
  THEN {Ended(CheckVatOf[viesReply[r]])}
  ELSE {Ended(checkVatViaVatlayer(vatlayerReply[r], args[r].countryCode,
                                  args[r].vatNumber, t)) : t \in 0..MaxNow}

\* r takes no step: what the program holds for r stays as it is
Untouched(r) ==
  <<pc[r], route[r], input[r], args[r], viesCalls[r], vatlayerCalls[r],
    viesReply[r], vatlayerReply[r], viesError[r], outcome[r], responses[r]>>
  = <<pc'[r], route'[r], input'[r], args'[r], viesCalls'[r], vatlayerCalls'[r],
      viesReply'[r], vatlayerReply'[r], viesError'[r], outcome'[r], responses'[r]>>

\* C18: in every interleaving of the requests' steps, a lookup that has ended
\* has the outcome it has alone with its arguments and its provider
\* responses, and a step of one request changes nothing another request holds.
C18_OutcomeAsAlone ==
  /\ [](\A r \in Reqs : outcome[r].ended => outcome[r] \in AloneOutcomes(r))
  /\ [][\A r1, r2 \in Reqs : (r1 # r2 /\ pc'[r1] # pc[r1]) => Untouched(r2)]_vars

\* two lookups with different arguments have run interleaved and both were
\* answered by the fallback
C18_Witness ==
  /\ outcome["r1"].ended /\ outcome["r1"].ok
  /\ outcome["r2"].ended /\ outcome["r2"].ok
  /\ args["r1"] # args["r2"]
  /\ vatlayerCalls["r1"] # <<>>
  /\ vatlayerCalls["r2"] # <<>>
  /\ outcome["r1"].value.countryCode # outcome["r2"].value.countryCode

\* ------------------------------------------------------------------------
\* C19: the API key
\* ------------------------------------------------------------------------

\* the request has been received
Arrived(r) == route[r] # ""

ClaimedOpenPaths == { <<"/">>, <<"/","h","e","a","l","t","h">> }

\* the header carries the key, surrounding whitespace aside
CarriesKey(value, key) == ~value.undef /\ trim(value.dyn) = key.dyn

\* the Authorization header is a Bearer credential
IsBearer(value) ==
  /\ ~value.undef
  /\ Len(value.dyn) >= 7
  /\ SubSeq(value.dyn, 1, 7) = <<"B","e","a","r","e","r"," ">>

\* the key the request supplies in the Authorization header, if any
BearerKey(value) ==
  IF IsBearer(value) THEN Dyn(SubSeq(value.dyn, 8, Len(value.dyn))) ELSE Undef

\* the request supplies the configured key, in one header or the other
SuppliesConfiguredKey(r) ==
  \/ CarriesKey(input[r].headers.xApiKey, apiKey)
  \/ CarriesKey(BearerKey(input[r].headers.authorization), apiKey)

\* the request supplies no key at all
SuppliesNoKey(r) ==
  /\ CarriesKey(input[r].headers.xApiKey, Dyn(<<>>)) \/ input[r].headers.xApiKey.undef
  /\ \/ ~IsBearer(input[r].headers.authorization)
     \/ CarriesKey(BearerKey(input[r].headers.authorization), Dyn(<<>>))

\* the request supplies a key, and none that is the configured one
SuppliesWrongKey(r) == ~SuppliesNoKey(r) /\ ~SuppliesConfiguredKey(r)

\* the request was answered by the middleware alone: one response of the
\* given status and code, no validation and no provider call
RefusedWith(r, status, code) ==
  /\ pc[r] = "done"
  /\ Len(responses[r]) = 1
  /\ responses[r][1].status = status
  /\ responses[r][1].isError
  /\ responses[r][1].error = code
  /\ args[r] = NoArgs
  /\ viesCalls[r] = <<>>
  /\ vatlayerCalls[r] = <<>>

\* the request went past the middleware, to its route's handler
PassedOn(r) ==
  /\ responses[r] # <<>> => responses[r][1].status \notin {401, 403}
  /\ route[r] \in {"health", "root"} =>
       pc[r] = "done" /\ responses[r] = <<sendJson(NoBody)>>
  /\ route[r] = "unknown" => pc[r] = "done" /\ responses[r][1].status = 404
  /\ route[r] \in {"path", "query"} =>
       \/ viesCalls[r] # <<>>
       \/ pc[r] = "done" /\ responses[r][1].status = 400

\* C19: with an API key configured, a request reaches input validation and
\* the lookup only if it supplies that key in X-API-Key or as a Bearer token;
\* one supplying no key is answered 401 UNAUTHORIZED and one supplying a wrong
\* key 403 FORBIDDEN, with no provider call; requests to / and /health always
\* pass; with no key configured every request passes
C19_ApiKeyGate ==
  \A r \in OneReq :
    Arrived(r) =>
      /\ truthy(apiKey) /\ input[r].path \notin ClaimedOpenPaths /\ PassedOn(r)
           => SuppliesConfiguredKey(r)
      /\ truthy(apiKey) /\ input[r].path \notin ClaimedOpenPaths /\ SuppliesNoKey(r)
           => RefusedWith(r, 401, "UNAUTHORIZED")
      /\ truthy(apiKey) /\ input[r].path \notin ClaimedOpenPaths /\ SuppliesWrongKey(r)
           => RefusedWith(r, 403, "FORBIDDEN")
      /\ input[r].path \in ClaimedOpenPaths => PassedOn(r)
      /\ ~truthy(apiKey) => PassedOn(r)

\* a request with a wrong key was answered 403 without a provider call, while
\* the fallback provider is configured
C19_Witness ==
  /\ truthy(apiKey)
  /\ truthy(vatlayerApiKey)
  /\ route["r1"] = "path"
  /\ PathOf[input["r1"].countryCode, input["r1"].vatNumber].valid
  /\ SuppliesWrongKey("r1")
  /\ RefusedWith("r1", 403, "FORBIDDEN")

\* ------------------------------------------------------------------------
\* C20: a fault in the body of an HTTP error response
\* ------------------------------------------------------------------------

\* the registry answered outside 2xx with a text body holding a faultstring
FaultInErrorBody(in) ==
  /\ ~in.ok
  /\ in.err.isAxios
  /\ in.err.hasResponse
  /\ HasElement(in.payload, TagFaultstring)

\* the text of the first faultstring element as it stands in the body
RawFaultText(p) ==
  LET I == {i \in 1..Len(p.elems) : p.elems[i].tag = TagFaultstring} IN
  p.elems[CHOOSE i \in I : \A j \in I : i <= j].text

\* validateVat would call the fallback provider for the error, were a key
\* configured
WouldFallBack(ret) == ~ret.ok /\ \E key \in ConfigKeys : useVatlayer(key, ret.error)

\* C20: when the registry answers with an HTTP error status and a text body
\* with a faultstring element, checkVat throws the classification of the fault
\* text if that text is not empty, whatever the status; and whatever the text
\* and the status (403 included) the error is none that makes validateVat call
\* the fallback provider.
C20_FaultNeverFallsBack ==
  (probeDone /\ FaultInErrorBody(probeArg)) =>
    /\ RawFaultText(probeArg.payload) # <<>> =>
         /\ ~probeRet.ok
         /\ KindOf(probeRet)
              = ClaimedFaultClass(FirstElementText(probeArg.payload, TagFaultstring))
    /\ ~WouldFallBack(probeRet)

\* ------------------------------------------------------------------------
\* C21: one response for every request
\* ------------------------------------------------------------------------

\* the request was answered by the API-key middleware
StoppedAtGate(r) ==
  /\ responses[r] # <<>>
  /\ responses[r][1].error \in {"UNAUTHORIZED", "FORBIDDEN"}

\* a request to a validation endpoint that went past the middleware
Admitted(r) == route[r] \in {"path", "query"} /\ ~StoppedAtGate(r)

\* an error body {error, message, status_code, details?} whose status_code is
\* the HTTP status sent
IsErrorBody(resp) ==
  /\ resp.isError
  /\ resp.error # ""
  /\ ~resp.message.undef
  /\ resp.status_code = resp.status
  /\ resp.json = NoBody

\* the success JSON built from a ValidationResult
IsSuccessOf(resp, v) ==
  /\ ~resp.isError
  /\ resp.status = 200
  /\ resp.json.valid = v.valid
  /\ resp.json.country_code = v.countryCode
  /\ resp.json.vat_number = v.vatNumber
  /\ resp.json.company_name = (IF v.name = <<>> THEN Undef ELSE Dyn(v.name))
  /\ resp.json.address = (IF v.address = <<>> THEN Undef ELSE Dyn(v.address))
  /\ resp.json.consultation_number = v.consultationNumber
  /\ resp.json.request_date
       = (IF v.requestDate = <<>> THEN Undef ELSE Dyn(v.requestDate))

\* the response that answers how the request's lookup ended
ClaimedResponse(r, resp) ==
  IF ~outcome[r].ended
  THEN IsErrorBody(resp) /\ viesCalls[r] = <<>>
  ELSE IF outcome[r].ok
  THEN IsSuccessOf(resp, outcome[r].value)
  ELSE IF outcome[r].error.isVies
  THEN /\ IsErrorBody(resp)
       /\ resp.error = outcome[r].error.code
       /\ resp.status_code = outcome[r].error.statusCode
  ELSE /\ IsErrorBody(resp)
       /\ resp.error = "INTERNAL_ERROR"
       /\ resp.status_code = 500

\* a request is answered at most once, and an admitted request that has been
\* answered has the response of its lookup
AnsweredAsClaimed ==
  \A r \in Reqs :
    /\ Len(responses[r]) <= 1
    /\ (Admitted(r) /\ responses[r] # <<>>) =>
         pc[r] = "done" /\ ClaimedResponse(r, responses[r][1])
    /\ (Admitted(r) /\ pc[r] = "done") => Len(responses[r]) = 1

\* C21: every request to a validation endpoint that passes the middleware is
\* in the end answered, and answered exactly once: with the success JSON built
\* from the result of its lookup, or with an error body whose status_code is
\* the HTTP status sent, carrying the kind and status of a classified error
\* and INTERNAL_ERROR / 500 for any other exception.
C21_ExactlyOneResponse ==
  /\ []AnsweredAsClaimed
  /\ \A r \in Reqs :
       (Arrived(r) /\ Admitted(r)) ~> (pc[r] = "done" /\ Len(responses[r]) = 1)

\* both requests have been answered after a lookup, one of them with
\* INTERNAL_ERROR / 500 for a failure of the fallback provider, while an API
\* key is configured
C21_Witness ==
  /\ truthy(apiKey)
  /\ \A r \in Reqs : Admitted(r) /\ pc[r] = "done" /\ outcome[r].ended
  /\ outcome["r1"].ok
  /\ ~outcome["r2"].ok /\ ~outcome["r2"].error.isVies
  /\ responses["r2"][1].error = "INTERNAL_ERROR"

====
